---------------------------- MODULE Spec2Model ----------------------------
(***************************************************************************)
(* State-machine model of AudioPlayer in                                   *)
(* src/linux_voice_assistant/sendspin_bridge.py: the time-synchronized PCM *)
(* player (chunk queue, start gate, drift correction, audio callback).     *)
(*                                                                         *)
(* Conventions                                                             *)
(*  - an Optional value is a sequence: <<>> is Python's None, <<v>> is v;  *)
(*  - bytes are sequences of integers 0..255;                              *)
(*  - the float of the sync-error filter is an exact rational [n, d] with  *)
(*    d a power of ten (alpha = 1/10), kept in lowest such terms;          *)
(*  - times are integer microseconds; outputBufferDacTime is taken in      *)
(*    microseconds (the code converts seconds with int(x * 10^6));         *)
(*  - the two time-conversion callables are server + skew and              *)
(*    client - skew, with skew changed by the clock-sync protocol, and     *)
(*    they raise while conv_ok is FALSE.                                   *)
(***************************************************************************)
EXTENDS Integers, Sequences, FiniteSets, TLC

VARIABLES
    ap,        \* the AudioPlayer object: a record of its fields
    now,       \* loop.time() in microseconds
    skew,      \* serverTime -> clientTime offset of the injected callables
    conv_ok,   \* FALSE while the injected callables raise
    dac_on,    \* TRUE when the device reports a DAC time, FALSE when it reports 0
    outdata,   \* the output buffer handed to the last audio callback
    op,        \* what the last operation was and what it observed
    enq,       \* history: every byte enqueued since the last clear, in order
    emitted,   \* history: <<position in enq, byte>> of every queue byte written out
    anchor_at, \* history: <<loop time>> of the last re-anchor, <<>> if none
    steps,     \* number of operations performed so far
    pc,        \* where the control thread and the audio thread stand inside an
               \* operation that another thread's step may cut in two
    br         \* the SendspinBridge object that owns the player: its fields

vars == <<ap, now, skew, conv_ok, dac_on, outdata, op, enq, emitted, anchor_at, steps, pc, br>>

----------------------------------------------------------------------------
(* Program constants *)

MICROSECONDS_PER_SECOND == 1000000
CORRECTION_DEADBAND_US == 2000
REANCHOR_THRESHOLD_US == 500000
REANCHOR_COOLDOWN_US == 5000000
EARLY_START_THRESHOLD_US == 700000
START_TIME_UPDATE_THRESHOLD_US == 5000
CALIBRATION_MAXLEN == 100
DEFAULT_VOLUME == 60
ROUND_UP_US == 999999

(* Bounds of the model *)

MaxSteps == 5
MaxDriftSteps == 9
MaxNow == 5600000
MaxFilterDen == 10
BlockFrames == 3
DriftBlockFrames == 26
MaxReformatSteps == 9
Unwritten == 0 - 1

----------------------------------------------------------------------------
(* Generic helpers *)

None == <<>>
Some(v) == <<v>>
IsNone(o) == o = <<>>
Val(o) == o[1]

Min(a, b) == IF a <= b THEN a ELSE b
Max(a, b) == IF a >= b THEN a ELSE b
Abs(x) == IF x < 0 THEN 0 - x ELSE x

Zeros(n) == [i \in 1..n |-> 0]
AllZero(s) == \A i \in 1..Len(s) : s[i] = 0
Drop(s, n) == SubSeq(s, Min(n, Len(s)) + 1, Len(s))

\* floor((a * b + c) / d) for a >= 0, b >= 0, 0 <= c, d > 0, computed without
\* forming a * b (Python integers are unbounded)
MulDiv(a, b, c, d) == (a \div d) * b + (((a % d) * b + c) \div d)

RECURSIVE Flatten(_)
Flatten(chunks) ==
    IF chunks = <<>> THEN <<>>
    ELSE Head(chunks).audio_data \o Flatten(Tail(chunks))

----------------------------------------------------------------------------
(* _SyncErrorFilter: value is the rational n / d *)

RECURSIVE NormRat(_, _)
NormRat(n, d) ==
    IF d > 1 /\ n % 10 = 0 THEN NormRat(n \div 10, d \div 10) ELSE [n |-> n, d |-> d]

RatZero == [n |-> 0, d |-> 1]
RatAbs(r) == [n |-> Abs(r.n), d |-> r.d]
\* r > k and r <= k for an integer k
RatGt(r, k) == r.n > k * r.d
RatLe(r, k) == r.n <= k * r.d

FilterInit == [value |-> RatZero, initialized |-> FALSE]

FilterUpdate(f, measurement) ==
    IF ~f.initialized
    THEN [value |-> [n |-> measurement, d |-> 1], initialized |-> TRUE]
    ELSE [value |-> NormRat(measurement * f.value.d + 9 * f.value.n, 10 * f.value.d),
          initialized |-> TRUE]

----------------------------------------------------------------------------
(* The injected callables compute_client_time / compute_server_time *)

ComputeClientTime(server_us) == server_us + skew
ComputeServerTime(client_us) == client_us - skew

----------------------------------------------------------------------------
(* AudioPlayer.__init__ *)

PlayerInit ==
    [ format |-> None,
      queue |-> <<>>,
      stream |-> "none",
      closed |-> FALSE,
      stream_started |-> FALSE,
      volume |-> DEFAULT_VOLUME,
      muted |-> FALSE,
      current_chunk |-> None,
      current_chunk_offset |-> 0,
      expected_next_timestamp |-> None,
      queued_duration_us |-> 0,
      dac_loop_calibrations |-> <<>>,
      last_known_playback_position_us |-> 0,
      last_dac_calibration_time_us |-> 0,
      playback_state |-> "INITIALIZING",
      scheduled_start_loop_time_us |-> None,
      scheduled_start_dac_time_us |-> None,
      server_ts_cursor_us |-> 0,
      server_ts_cursor_remainder |-> 0,
      first_server_timestamp_us |-> None,
      early_start_suspect |-> FALSE,
      has_reanchored |-> FALSE,
      insert_every_n_frames |-> 0,
      drop_every_n_frames |-> 0,
      frames_until_next_insert |-> 0,
      frames_until_next_drop |-> 0,
      last_output_frame |-> <<>>,
      sync_error_filter |-> FilterInit,
      sync_error_filtered_us |-> RatZero,
      last_reanchor_loop_time_us |-> 0,
      last_sync_error_log_us |-> 0,
      frames_inserted_since_log |-> 0,
      frames_dropped_since_log |-> 0,
      clear_requested |-> FALSE ]

\* a faulty variant of clear that forgets the scheduled start
ClearPlayerKeepsStart(a) ==
    [ PlayerInit EXCEPT
        !.format = a.format,
        !.stream = a.stream,
        !.closed = a.closed,
        !.volume = a.volume,
        !.muted = a.muted,
        !.scheduled_start_loop_time_us = a.scheduled_start_loop_time_us ]

\* a faulty variant of clear whose drain loop takes one chunk off the queue
ClearPlayerPopsOne(a) ==
    [ PlayerInit EXCEPT
        !.format = a.format,
        !.stream = a.stream,
        !.closed = a.closed,
        !.volume = a.volume,
        !.muted = a.muted,
        !.queue = IF a.queue = <<>> THEN <<>> ELSE Tail(a.queue) ]

\* AudioPlayer.clear: everything but format, device, stream handle, closed,
\* volume and mute goes back to its constructor value; the stream is stopped
ClearPlayer(a) ==
    [ PlayerInit EXCEPT
        !.format = a.format,
        !.stream = a.stream,
        !.closed = a.closed,
        !.volume = a.volume,
        !.muted = a.muted ]

\* AudioPlayer.set_format: store the format, close the old stream, open a new one
SetFormatPlayer(a, fmt) ==
    [ a EXCEPT !.format = Some(fmt), !.stream = "open", !.stream_started = FALSE ]

\* a faulty variant of set_volume that stores the volume as given
SetVolumePlayerUnclamped(a, volume, muted) ==
    [ a EXCEPT !.volume = volume, !.muted = muted ]

\* AudioPlayer.set_volume
SetVolumePlayer(a, volume, muted) ==
    [ a EXCEPT !.volume = Max(0, Min(100, volume)), !.muted = muted ]

\* AudioPlayer.stop
StopPlayer(a) ==
    [ a EXCEPT !.closed = TRUE, !.stream = "none" ]


----------------------------------------------------------------------------
(* Chunk queue: read side *)

FrameSize(a) == Val(a.format).frame_size
SampleRate(a) == Val(a.format).sample_rate

\* bytes still buffered: unread part of the current chunk, then the queue
BufferedData(a) ==
    (IF IsNone(a.current_chunk) THEN <<>>
     ELSE Drop(Val(a.current_chunk).audio_data, a.current_chunk_offset))
    \o Flatten(a.queue)

\* a faulty variant of the cursor advance that forgets the fraction of a
\* microsecond each read leaves over
AdvanceServerCursorNoRemainder(a, frames) ==
    IF IsNone(a.format) \/ frames <= 0 THEN a
    ELSE [ a EXCEPT !.server_ts_cursor_us =
                        @ + ((frames * MICROSECONDS_PER_SECOND) \div SampleRate(a)) ]

\* a faulty variant of the cursor advance that counts every read as one frame
AdvanceServerCursorOneFrame(a, frames) ==
    IF IsNone(a.format) \/ frames <= 0 THEN a
    ELSE [ a EXCEPT !.server_ts_cursor_us =
                        @ + (MICROSECONDS_PER_SECOND \div SampleRate(a)) ]

\* AudioPlayer._advance_server_cursor_frames
AdvanceServerCursorFrames(a, frames) ==
    IF IsNone(a.format) \/ frames <= 0 THEN a
    ELSE LET rem == a.server_ts_cursor_remainder + frames * MICROSECONDS_PER_SECOND
             sr == SampleRate(a)
         IN IF rem >= sr
            THEN [ a EXCEPT !.server_ts_cursor_remainder = rem % sr,
                            !.server_ts_cursor_us = @ + (rem \div sr) ]
            ELSE [ a EXCEPT !.server_ts_cursor_remainder = rem ]

\* AudioPlayer._advance_finished_chunk
AdvanceFinishedChunk(a) ==
    IF IsNone(a.format) \/ IsNone(a.current_chunk) THEN a
    ELSE LET data == Val(a.current_chunk).audio_data
             chunk_frames == Len(data) \div FrameSize(a)
             chunk_duration_us ==
                 (chunk_frames * MICROSECONDS_PER_SECOND) \div SampleRate(a)
         IN [ a EXCEPT !.queued_duration_us = Max(0, @ - chunk_duration_us),
                       !.current_chunk = None,
                       !.current_chunk_offset = 0 ]

\* a faulty variant of the queue's get_nowait that hands out the newest chunk
QueueGetNewest(q) == [chunk |-> q[Len(q)], rest |-> SubSeq(q, 1, Len(q) - 1)]

\* the queue's get_nowait: the chunk at the head leaves the queue
QueueGet(q) == [chunk |-> Head(q), rest |-> Tail(q)]

\* AudioPlayer._initialize_current_chunk (the queue is not empty)
InitializeCurrentChunk(a) ==
    LET g == QueueGet(a.queue)
    IN [ a EXCEPT !.current_chunk = Some(g.chunk),
                  !.queue = g.rest,
                  !.current_chunk_offset = 0,
                  !.server_ts_cursor_us =
                      IF @ = 0 THEN g.chunk.server_timestamp_us ELSE @ ]

\* the player with a chunk loaded: _initialize_current_chunk when there is none
Loaded(a) == IF IsNone(a.current_chunk) THEN InitializeCurrentChunk(a) ELSE a

\* "if self._current_chunk_offset >= len(data): self._advance_finished_chunk()"
FinishIfConsumed(a) ==
    IF a.current_chunk_offset >= Len(Val(a.current_chunk).audio_data)
    THEN AdvanceFinishedChunk(a) ELSE a

\* _read_one_input_frame once a chunk is loaded
ReadLoadedFrame(a1) ==
    LET data == Val(a1.current_chunk).audio_data
        frame_size == FrameSize(a1)
        start == a1.current_chunk_offset
        end == Min(start + frame_size, Len(data))
    IN IF start >= Len(data)
       THEN [a |-> AdvanceFinishedChunk(a1), frame |-> None]
       ELSE [a |-> FinishIfConsumed(AdvanceServerCursorFrames(
                       [a1 EXCEPT !.current_chunk_offset = end], 1)),
             frame |-> Some(SubSeq(data, start + 1, end)
                            \o Zeros(frame_size - (end - start)))]

\* AudioPlayer._read_one_input_frame: [a, frame] with frame None or a frame
ReadOneInputFrame(a) ==
    IF IsNone(a.format) \/ FrameSize(a) = 0 THEN [a |-> a, frame |-> None]
    ELSE IF IsNone(a.current_chunk) /\ a.queue = <<>> THEN [a |-> a, frame |-> None]
    ELSE ReadLoadedFrame(Loaded(a))

RECURSIVE BulkLoop(_, _, _)

\* one pass of the while loop of _read_input_frames_bulk with a chunk loaded
BulkCopy(a1, result, total_bytes_needed) ==
    LET chunk_data == Val(a1.current_chunk).audio_data
        available_bytes == Len(chunk_data) - a1.current_chunk_offset
        bytes_to_read == Min(available_bytes, total_bytes_needed - Len(result))
    IN BulkLoop(FinishIfConsumed(AdvanceServerCursorFrames(
                    [a1 EXCEPT !.current_chunk_offset = @ + bytes_to_read],
                    bytes_to_read \div FrameSize(a1))),
                result \o SubSeq(chunk_data, a1.current_chunk_offset + 1,
                                 a1.current_chunk_offset + bytes_to_read),
                total_bytes_needed)

\* the while loop of _read_input_frames_bulk: result holds the bytes_written
\* bytes copied so far
BulkLoop(a, result, total_bytes_needed) ==
    IF Len(result) >= total_bytes_needed THEN [a |-> a, result |-> result]
    ELSE IF IsNone(a.current_chunk) /\ a.queue = <<>> THEN [a |-> a, result |-> result]
    ELSE BulkCopy(Loaded(a), result, total_bytes_needed)

\* the end of _read_input_frames_bulk: remember the last whole frame copied,
\* zero-fill what the queue did not provide
BulkResult(r, frame_size, total) ==
    [a |-> IF Len(r.result) >= frame_size
           THEN [ r.a EXCEPT !.last_output_frame =
                    SubSeq(r.result, Len(r.result) - frame_size + 1, Len(r.result)) ]
           ELSE r.a,
     data |-> r.result \o Zeros(total - Len(r.result)),
     real |-> Len(r.result)]

\* a faulty variant of the bulk read that returns only the bytes it found
ReadInputFramesBulkShort(a, n_frames) ==
    IF IsNone(a.format) \/ n_frames <= 0 THEN [a |-> a, data |-> <<>>, real |-> 0]
    ELSE [a |-> BulkLoop(a, <<>>, n_frames * FrameSize(a)).a,
          data |-> BulkLoop(a, <<>>, n_frames * FrameSize(a)).result,
          real |-> Len(BulkLoop(a, <<>>, n_frames * FrameSize(a)).result)]

\* AudioPlayer._read_input_frames_bulk: [a, data, real]; data is n_frames
\* frames, of which the first `real` bytes come from the queue and the rest
\* is the zero fill of an underrun
ReadInputFramesBulk(a, n_frames) ==
    IF IsNone(a.format) \/ n_frames <= 0 THEN [a |-> a, data |-> <<>>, real |-> 0]
    ELSE BulkResult(BulkLoop(a, <<>>, n_frames * FrameSize(a)),
                    FrameSize(a), n_frames * FrameSize(a))

RECURSIVE SkipInputFrames(_, _)

\* one pass of the while loop of _skip_input_frames with a chunk loaded
SkipLoaded(a1, frames_to_skip) ==
    LET rem_frames == (Len(Val(a1.current_chunk).audio_data) - a1.current_chunk_offset)
                          \div FrameSize(a1)
        take == Min(rem_frames, frames_to_skip)
    IN IF rem_frames <= 0
       THEN SkipInputFrames(AdvanceFinishedChunk(a1), frames_to_skip)
       ELSE SkipInputFrames(
                FinishIfConsumed(AdvanceServerCursorFrames(
                    [a1 EXCEPT !.current_chunk_offset = @ + take * FrameSize(a1)], take)),
                frames_to_skip - take)

\* AudioPlayer._skip_input_frames
SkipInputFrames(a, frames_to_skip) ==
    IF IsNone(a.format) \/ frames_to_skip <= 0 THEN a
    ELSE IF IsNone(a.current_chunk) /\ a.queue = <<>> THEN a
    ELSE SkipLoaded(Loaded(a), frames_to_skip)

----------------------------------------------------------------------------
(* DAC / loop calibration ring and the two estimators *)

\* Python's round() of base + r / den (0 <= r < den): half to even
RoundHalfEven(base, r, den) ==
    IF 2 * r < den THEN base
    ELSE IF 2 * r > den THEN base + 1
    ELSE IF base % 2 = 0 THEN base ELSE base + 1

\* max(_DAC_PER_LOOP_MIN, min(_DAC_PER_LOOP_MAX, p / q)) as a rational [p, q], q > 0
ClampSlope(p0, q0) ==
    LET p == IF q0 < 0 THEN 0 - p0 ELSE p0
        q == Abs(q0)
    IN IF p * 1000 < 999 * q THEN [p |-> 999, q |-> 1000]
       ELSE IF p * 1000 > 1001 * q THEN [p |-> 1001, q |-> 1000]
       ELSE [p |-> p, q |-> q]

\* round(ref + delta * slope); delta * p / q is formed as delta + delta * (p - q) / q
Affine(ref, delta, slope) ==
    LET x == delta * (slope.p - slope.q)
    IN RoundHalfEven(ref + delta + (x \div slope.q), x % slope.q, slope.q)

CalLast(a) == a.dac_loop_calibrations[Len(a.dac_loop_calibrations)]
CalPrev(a) ==
    IF Len(a.dac_loop_calibrations) >= 2
    THEN a.dac_loop_calibrations[Len(a.dac_loop_calibrations) - 1]
    ELSE <<0, 0>>

\* AudioPlayer._estimate_dac_time_for_server_timestamp: [raised, v]
EstimateDacTimeForServerTimestamp(a, server_timestamp_us) ==
    IF a.last_dac_calibration_time_us = 0 THEN [raised |-> FALSE, v |-> 0]
    ELSE IF ~conv_ok THEN [raised |-> TRUE, v |-> 0]
    ELSE IF a.dac_loop_calibrations = <<>> THEN [raised |-> FALSE, v |-> 0]
    ELSE
      LET loop_time_us == ComputeClientTime(server_timestamp_us)
          dac_ref_us == CalLast(a)[1]
          loop_ref_us == CalLast(a)[2]
          dac_prev_us == CalPrev(a)[1]
          loop_prev_us == CalPrev(a)[2]
          dac_per_loop ==
              IF loop_prev_us # 0 /\ dac_prev_us # 0 /\ loop_ref_us # loop_prev_us
              THEN ClampSlope(dac_ref_us - dac_prev_us, loop_ref_us - loop_prev_us)
              ELSE [p |-> 1, q |-> 1]
      IN IF loop_ref_us = 0 THEN [raised |-> FALSE, v |-> 0]
         ELSE [raised |-> FALSE,
               v |-> Affine(dac_ref_us, loop_time_us - loop_ref_us, dac_per_loop)]

\* AudioPlayer._estimate_loop_time_for_dac_time
EstimateLoopTimeForDacTime(a, dac_time_us) ==
    IF a.dac_loop_calibrations = <<>> THEN 0
    ELSE
      LET dac_ref_us == CalLast(a)[1]
          loop_ref_us == CalLast(a)[2]
          dac_prev_us == CalPrev(a)[1]
          loop_prev_us == CalPrev(a)[2]
          loop_per_dac ==
              IF dac_prev_us # 0 /\ dac_ref_us # dac_prev_us
              THEN ClampSlope(loop_ref_us - loop_prev_us, dac_ref_us - dac_prev_us)
              ELSE [p |-> 1, q |-> 1]
      IN IF loop_ref_us = 0 THEN 0
         ELSE Affine(loop_ref_us, dac_time_us - dac_ref_us, loop_per_dac)

\* a faulty variant of the ring's append that never evicts
RingAppendUnbounded(ring, pair) == Append(ring, pair)

\* collections.deque(maxlen=100).append
RingAppend(ring, pair) ==
    IF Len(ring) >= CALIBRATION_MAXLEN THEN Append(Tail(ring), pair)
    ELSE Append(ring, pair)

\* _update_playback_position_from_dac, lines 444-445: record the pair
Calibrate(a, dac_time_us) ==
    [ a EXCEPT !.dac_loop_calibrations = RingAppend(@, <<dac_time_us, now>>),
               !.last_dac_calibration_time_us = now ]

\* lines 448-450: the loop time taken for the DAC time
LoopAtDac(est_loop) == IF est_loop = 0 THEN now ELSE est_loop

\* lines 447-454: the playback position on the server timeline
UpdatePosition(a1, dac_time_us) ==
    IF conv_ok
    THEN [ a1 EXCEPT !.last_known_playback_position_us =
             ComputeServerTime(LoopAtDac(EstimateLoopTimeForDacTime(a1, dac_time_us))) ]
    ELSE a1

\* lines 465-466: "if est_dac: self._scheduled_start_dac_time_us = est_dac"
SetDacStart(a2, est_dac) ==
    IF est_dac.v # 0 THEN [ a2 EXCEPT !.scheduled_start_dac_time_us = Some(est_dac.v) ]
    ELSE a2

\* lines 456-471: estimate the DAC start once a loop start is scheduled
RefreshDacStart(a2) ==
    IF IsNone(a2.scheduled_start_dac_time_us)
       /\ ~IsNone(a2.scheduled_start_loop_time_us)
       /\ Val(a2.scheduled_start_loop_time_us) # 0
    THEN IF ~conv_ok
         THEN [ a2 EXCEPT !.scheduled_start_dac_time_us = a2.scheduled_start_loop_time_us ]
         ELSE SetDacStart(a2, EstimateDacTimeForServerTimestamp(
                                  a2, ComputeServerTime(Val(a2.scheduled_start_loop_time_us))))
    ELSE a2

\* AudioPlayer._update_playback_position_from_dac
UpdatePlaybackPositionFromDac(a, dac_time_us) ==
    RefreshDacStart(UpdatePosition(Calibrate(a, dac_time_us), dac_time_us))

----------------------------------------------------------------------------
(* Start gate *)

\* ceil(delta_us * sample_rate / 10^6) as the code computes it
FramesForDelta(delta_us, sample_rate) ==
    MulDiv(delta_us, sample_rate, ROUND_UP_US, MICROSECONDS_PER_SECOND)

\* a faulty variant of the gate that opens as soon as it is asked
HandleStartGatingOpen(a, frames, dac_time_us) ==
    [a |-> [ a EXCEPT !.playback_state = "PLAYING" ], silence |-> 0]

\* a faulty variant of the gate's opening that forgets the scheduled start
OpenIfDueForgetsStart(a1, current_time_us, target_time_us) ==
    IF current_time_us >= target_time_us
    THEN [ a1 EXCEPT !.playback_state = "PLAYING", !.scheduled_start_loop_time_us = None ]
    ELSE a1

\* lines 759-760: the gate opens when its clock has reached the target
OpenIfDue(a1, current_time_us, target_time_us) ==
    IF current_time_us >= target_time_us
    THEN [ a1 EXCEPT !.playback_state = "PLAYING" ]
    ELSE a1

\* lines 741-762 for the chosen clock: [a, silence]
GateOn(a, frames, target_time_us, current_time_us, can_drop_frames) ==
    [a |-> OpenIfDue(
               IF target_time_us - current_time_us < 0 /\ can_drop_frames
                  /\ ~(a.early_start_suspect /\ ~a.has_reanchored)
               THEN [ SkipInputFrames(
                          a, FramesForDelta(current_time_us - target_time_us, SampleRate(a)))
                        EXCEPT !.playback_state = "PLAYING" ]
               ELSE a,
               current_time_us, target_time_us),
     silence |-> IF target_time_us - current_time_us > 0
                 THEN Min(FramesForDelta(target_time_us - current_time_us, SampleRate(a)),
                          frames) * FrameSize(a)
                 ELSE 0]

\* AudioPlayer._handle_start_gating with bytes_written = 0 on entry:
\* [a, silence] where silence is the number of zero bytes written
HandleStartGating(a, frames, dac_time_us) ==
    IF ~IsNone(a.scheduled_start_dac_time_us) /\ dac_time_us > 0
    THEN GateOn(a, frames, Val(a.scheduled_start_dac_time_us), dac_time_us, TRUE)
    ELSE IF ~IsNone(a.scheduled_start_loop_time_us)
    THEN GateOn(a, frames, Val(a.scheduled_start_loop_time_us), now, FALSE)
    ELSE [a |-> a, silence |-> 0]

----------------------------------------------------------------------------
(* Volume *)

\* a faulty variant of the scaling that rounds toward minus infinity
ScaleSampleFloor(sample, volume) == (sample * ((volume * volume * volume) \div 1000)) \div 1000

\* one int16 sample times (volume / 100)^3, cast back to int16 (truncation
\* toward zero); the cube is taken exactly: the double of the code is exact
\* at volume 50 and, at the constructor's volume 60, gives another quotient
\* only for samples that are multiples of 125, which no scenario plays
ScaleSample(sample, volume) ==
    LET cube == volume * volume * volume
        hi == cube \div 1000
        lo == cube % 1000
        \* floor(|sample| * cube / 10^6) without forming |sample| * cube
        mag == (Abs(sample) * hi + ((Abs(sample) * lo) \div 1000)) \div 1000
    IN IF sample < 0 THEN 0 - mag ELSE mag

\* little-endian int16 from two bytes and back
ToInt16(lo, hi) == LET u == lo + 256 * hi IN IF u >= 32768 THEN u - 65536 ELSE u
FromInt16(v, k) == LET u == IF v < 0 THEN v + 65536 ELSE v
                   IN IF k = 0 THEN u % 256 ELSE u \div 256

\* a faulty variant of the scaling that does not look at the mute flag
ApplyVolumeIgnoresMute(buf, volume, muted) ==
    IF volume = 0 THEN Zeros(Len(buf)) ELSE buf

\* AudioPlayer._apply_volume on the num_bytes bytes of the buffer
ApplyVolume(buf, volume, muted) ==
    IF muted \/ volume = 0 THEN Zeros(Len(buf))
    ELSE IF volume = 100 THEN buf
    ELSE [ i \in 1..Len(buf) |->
             LET j == ((i - 1) \div 2) * 2 + 1
                 v == ScaleSample(ToInt16(buf[j], buf[j + 1]), volume)
             IN FromInt16(v, (i - 1) % 2) ]

----------------------------------------------------------------------------
(* Audio callback *)

\* history: the queue bytes of one bulk read with their positions in enq;
\* before is the player before the read
Positions(before, data, real) ==
    LET base == Len(enq) - Len(BufferedData(before))
    IN [ i \in 1..real |-> <<base + i, data[i]>> ]

\* lines 373-384: frames to the next correction event, at most what remains
NextEventIn(st, insert_every_n, drop_every_n) ==
    Min(Min(IF insert_every_n > 0 THEN st.insert_counter ELSE st.frames_remaining + 1,
            IF drop_every_n > 0 THEN st.drop_counter ELSE st.frames_remaining + 1),
        st.frames_remaining)

\* lines 387-395: the segment seg of next_event_in frames is written out
WriteSegment(st, seg, next_event_in) ==
    [ st EXCEPT
        !.a = seg.a,
        !.buf = @ \o seg.data,
        !.emit = @ \o Positions(st.a, seg.data, seg.real),
        !.frames_remaining = @ - next_event_in,
        !.insert_counter = @ - next_event_in,
        !.drop_counter = @ - next_event_in ]

\* lines 386-395
ReadSegment(st, next_event_in) ==
    IF next_event_in > 0
    THEN WriteSegment(st, ReadInputFramesBulk(st.a, next_event_in), next_event_in)
    ELSE st

\* lines 401-410: a drop event, a2 being the player after the two reads; the
\* slice assignment raises when the last frame has another size
DropEvent(s1, a2, drop_every_n, frame_size) ==
    IF Len(a2.last_output_frame) # frame_size
    THEN [ s1 EXCEPT !.a = a2, !.drop_counter = drop_every_n, !.raised = TRUE ]
    ELSE [ s1 EXCEPT
             !.a = a2,
             !.drop_counter = drop_every_n,
             !.buf = @ \o a2.last_output_frame,
             !.frames_remaining = @ - 1,
             !.insert_counter = @ - 1 ]

\* a faulty variant of the insert event that takes a frame from the input
InsertEventConsuming(s1, a2, insert_every_n, frame_size) ==
    [ s1 EXCEPT
        !.a = ReadOneInputFrame(a2).a,
        !.insert_counter = insert_every_n,
        !.buf = @ \o a2.last_output_frame,
        !.frames_remaining = @ - 1,
        !.drop_counter = @ - 1 ]

\* lines 413-420: an insert event
InsertEvent(s1, a2, insert_every_n, frame_size) ==
    IF Len(a2.last_output_frame) # frame_size
    THEN [ s1 EXCEPT !.a = a2, !.insert_counter = insert_every_n, !.raised = TRUE ]
    ELSE [ s1 EXCEPT
             !.a = a2,
             !.insert_counter = insert_every_n,
             !.buf = @ \o a2.last_output_frame,
             !.frames_remaining = @ - 1,
             !.drop_counter = @ - 1 ]

\* lines 398-420: the correction event after the segment
CorrectionEvent(s1, insert_every_n, drop_every_n, frame_size) ==
    IF s1.frames_remaining <= 0 THEN s1
    ELSE IF s1.drop_counter <= 0 /\ drop_every_n > 0
    THEN DropEvent(s1,
                   [ ReadOneInputFrame(ReadOneInputFrame(s1.a).a).a
                       EXCEPT !.frames_dropped_since_log = @ + 1 ],
                   drop_every_n, frame_size)
    ELSE IF s1.insert_counter <= 0 /\ insert_every_n > 0
    THEN InsertEvent(s1, [ s1.a EXCEPT !.frames_inserted_since_log = @ + 1 ],
                     insert_every_n, frame_size)
    ELSE s1

\* one pass of the slow path's while loop; st is the loop's local state:
\* a, buf (the bytes written so far), emit (history), frames_remaining,
\* insert_counter, drop_counter, raised (an exception left the loop), fuel
SlowStep(st, insert_every_n, drop_every_n, frame_size) ==
    CorrectionEvent(ReadSegment(st, NextEventIn(st, insert_every_n, drop_every_n)),
                    insert_every_n, drop_every_n, frame_size)

\* while frames_remaining > 0; the loop is cut after fuel passes, which a
\* terminating loop never uses up (every pass writes at least one frame)
RECURSIVE SlowLoop(_, _, _, _)
SlowLoop(st, insert_every_n, drop_every_n, frame_size) ==
    IF st.frames_remaining <= 0 \/ st.raised THEN st
    ELSE IF st.fuel = 0 THEN [ st EXCEPT !.hung = TRUE ]
    ELSE SlowLoop(SlowStep([st EXCEPT !.fuel = @ - 1],
                           insert_every_n, drop_every_n, frame_size),
                  insert_every_n, drop_every_n, frame_size)

\* lines 360-366: restart a countdown that ran out, seed the last frame
PrepareSlow(a) ==
    [ a EXCEPT
        !.frames_until_next_insert =
            IF @ <= 0 /\ a.insert_every_n_frames > 0 THEN a.insert_every_n_frames ELSE @,
        !.frames_until_next_drop =
            IF @ <= 0 /\ a.drop_every_n_frames > 0 THEN a.drop_every_n_frames ELSE @,
        !.last_output_frame = IF @ = <<>> THEN Zeros(FrameSize(a)) ELSE @ ]

\* lines 368-370: the loop's local state on entry
SlowStart(a1, buf, frames) ==
    [ a |-> a1, buf |-> buf, emit |-> <<>>,
      frames_remaining |-> frames,
      insert_counter |-> a1.frames_until_next_insert,
      drop_counter |-> a1.frames_until_next_drop,
      raised |-> FALSE, fuel |-> 2 * frames + 2, hung |-> FALSE ]

\* lines 422-423: the countdowns are stored when the loop ends normally
SlowEnd(st) ==
    IF st.raised \/ st.hung
    THEN [a |-> st.a, buf |-> st.buf, emit |-> st.emit,
          raised |-> st.raised, hung |-> st.hung]
    ELSE [a |-> [ st.a EXCEPT !.frames_until_next_insert = st.insert_counter,
                              !.frames_until_next_drop = st.drop_counter ],
          buf |-> st.buf, emit |-> st.emit, raised |-> FALSE, hung |-> FALSE]

\* the slow path of _audio_callback, entered with bytes_written bytes in buf
SlowPath(a, buf, frames) ==
    SlowEnd(SlowLoop(SlowStart(PrepareSlow(a), buf, frames),
                     a.insert_every_n_frames, a.drop_every_n_frames, FrameSize(a)))

\* lines 353-357: the bulk data r is written at bytes_written; the slice
\* assignment raises when it does not fit the buffer
FastWrite(a, buf, frames, r) ==
    IF Len(buf) + Len(r.data) > frames * FrameSize(a)
    THEN [a |-> r.a, buf |-> buf, emit |-> <<>>, raised |-> TRUE, hung |-> FALSE]
    ELSE [a |-> r.a, buf |-> buf \o r.data,
          emit |-> Positions(a, r.data, r.real), raised |-> FALSE, hung |-> FALSE]

\* the fast path: one bulk read of `frames` frames written at bytes_written
FastPath(a, buf, frames) == FastWrite(a, buf, frames, ReadInputFramesBulk(a, frames))

\* lines 332-335: the gate runs only in WAITING_FOR_START
Gate(a, frames, dac_time_us) ==
    IF a.playback_state = "WAITING_FOR_START"
    THEN HandleStartGating(a, frames, dac_time_us)
    ELSE [a |-> a, silence |-> 0]

\* which branch of lines 338-423 runs for the player ga left by the gate
Branch(ga) ==
    IF ga.playback_state = "WAITING_FOR_START" THEN "gate"
    ELSE IF ga.insert_every_n_frames = 0 /\ ga.drop_every_n_frames = 0 THEN "fast"
    ELSE "slow"

\* lines 338-423: silence while still waiting, else the fast or the slow path
Produce(g, frames) ==
    IF Branch(g.a) = "gate"
    THEN [a |-> g.a, buf |-> Zeros(frames * FrameSize(g.a)), emit |-> <<>>,
          raised |-> FALSE, hung |-> FALSE]
    ELSE IF Branch(g.a) = "fast"
    THEN FastPath(g.a, Zeros(g.silence), frames)
    ELSE SlowPath(g.a, Zeros(g.silence), frames)

\* lines 425-433: the except clause fills the rest with silence and drops the
\* current chunk; bytes no path assigned stay Unwritten
Recover(r, branch, bytes_needed) ==
    IF r.hung
    THEN [a |-> r.a, emit |-> r.emit, path |-> "hung",
          buf |-> r.buf \o [i \in 1..(bytes_needed - Len(r.buf)) |-> Unwritten]]
    ELSE IF r.raised
    THEN [a |-> [ r.a EXCEPT !.current_chunk = None, !.current_chunk_offset = 0 ],
          emit |-> r.emit, path |-> "exception",
          buf |-> r.buf \o Zeros(bytes_needed - Len(r.buf))]
    ELSE [a |-> r.a, emit |-> r.emit, path |-> branch,
          buf |-> r.buf \o [i \in 1..(bytes_needed - Len(r.buf)) |-> Unwritten]]

\* lines 337-433 after the gate
AfterGate(g, frames) ==
    Recover(Produce(g, frames), Branch(g.a), frames * FrameSize(g.a))

\* the try block of _audio_callback and its except clause
FillBuffer(a, frames, dac_time_us) == AfterGate(Gate(a, frames, dac_time_us), frames)

\* line 436: volume scaling of the filled buffer f
Scaled(f) ==
    [a |-> f.a,
     out |-> IF f.path = "hung" THEN f.buf ELSE ApplyVolume(f.buf, f.a.volume, f.a.muted),
     raw |-> f.buf, emit |-> f.emit, path |-> f.path]

\* AudioPlayer._audio_callback: [a, out, raw, emit, path]; out is the buffer
\* on return, raw the buffer before volume scaling
AudioCallback(a, frames, dac_time_us, status) ==
    IF IsNone(a.format)
    THEN [a |-> a, out |-> <<>>, raw |-> <<>>, emit |-> <<>>, path |-> "noformat"]
    ELSE IF status \in {"input_underflow", "output_underflow"}
    THEN [a |-> [a EXCEPT !.clear_requested = TRUE],
          out |-> Zeros(frames * FrameSize(a)), raw |-> Zeros(frames * FrameSize(a)),
          emit |-> <<>>, path |-> "underflow"]
    ELSE Scaled(FillBuffer(UpdatePlaybackPositionFromDac(a, dac_time_us),
                           frames, dac_time_us))

----------------------------------------------------------------------------
(* Correction scheduler *)

\* a faulty variant of the interval without the cap on the correction rate
IntervalFramesUncapped(sample_rate, abs_err) ==
    IF abs_err.n = 0 \/ sample_rate <= 0 THEN 25
    ELSE Max((2 * MICROSECONDS_PER_SECOND * abs_err.d) \div abs_err.n, 1)

\* interval_frames of _update_correction_schedule for |filtered error| = n / d:
\* int(sample_rate / min(frames_error / 2.0, sample_rate * 0.04)), at least 1.
\* desired <= max is n / (d * 2 * 10^6) <= 4 / 100, and sample_rate / desired
\* is 2 * 10^6 * d / n, so the sample rate cancels
IntervalFrames(sample_rate, abs_err) ==
    IF abs_err.n = 0 \/ sample_rate <= 0 THEN 25
    ELSE IF abs_err.n <= 80000 * abs_err.d
    THEN Max((2 * MICROSECONDS_PER_SECOND * abs_err.d) \div abs_err.n, 1)
    ELSE Max(25, 1)

\* a faulty variant of the plan that inserts when behind and drops when ahead
PlanSwapped(a, filtered, interval_frames) ==
    IF filtered.n > 0
    THEN [ a EXCEPT !.insert_every_n_frames = interval_frames,
                    !.drop_every_n_frames = 0 ]
    ELSE [ a EXCEPT !.drop_every_n_frames = interval_frames,
                    !.insert_every_n_frames = 0 ]

\* a faulty variant of the plan that sets both intervals
PlanBoth(a, filtered, interval_frames) ==
    [ a EXCEPT !.drop_every_n_frames = interval_frames,
               !.insert_every_n_frames = interval_frames ]

\* the plan chosen from the sign of the filtered error
PlanFor(a, filtered, interval_frames) ==
    IF filtered.n > 0
    THEN [ a EXCEPT !.drop_every_n_frames = interval_frames,
                    !.insert_every_n_frames = 0 ]
    ELSE [ a EXCEPT !.insert_every_n_frames = interval_frames,
                    !.drop_every_n_frames = 0 ]

\* a faulty variant of the re-anchor test with the threshold doubled
ReanchorDueLate(a, abs_err, now_loop_us) ==
    /\ RatGt(abs_err, 2 * REANCHOR_THRESHOLD_US)
    /\ a.playback_state = "PLAYING"
    /\ now_loop_us - a.last_reanchor_loop_time_us > REANCHOR_COOLDOWN_US

\* the re-anchor test of _update_correction_schedule
ReanchorDue(a, abs_err, now_loop_us) ==
    /\ RatGt(abs_err, REANCHOR_THRESHOLD_US)
    /\ a.playback_state = "PLAYING"
    /\ now_loop_us - a.last_reanchor_loop_time_us > REANCHOR_COOLDOWN_US

\* a faulty variant of the scheduler whose re-anchor zeroes the plan and stamps
\* the cooldown but does not clear the player
UpdateCorrectionScheduleNoClear(a, error_us) ==
    LET f == FilterUpdate(a.sync_error_filter, error_us)
        a1 == [ a EXCEPT !.sync_error_filter = f, !.sync_error_filtered_us = f.value ]
        abs_err == RatAbs(f.value)
    IN IF RatLe(abs_err, CORRECTION_DEADBAND_US)
       THEN [a |-> [ a1 EXCEPT !.insert_every_n_frames = 0, !.drop_every_n_frames = 0 ],
             reanchored |-> FALSE, filtered |-> f.value]
       ELSE IF ReanchorDue(a1, abs_err, now)
       THEN [a |-> [ a1 EXCEPT !.insert_every_n_frames = 0,
                               !.drop_every_n_frames = 0,
                               !.frames_until_next_insert = 0,
                               !.frames_until_next_drop = 0,
                               !.last_reanchor_loop_time_us = now ],
             reanchored |-> TRUE, filtered |-> f.value]
       ELSE [a |-> PlanFor(a1, f.value, IntervalFrames(SampleRate(a1), abs_err)),
             reanchored |-> FALSE, filtered |-> f.value]

\* AudioPlayer._update_correction_schedule: [a, reanchored, filtered]
UpdateCorrectionSchedule(a, error_us) ==
    IF IsNone(a.format) \/ SampleRate(a) <= 0
    THEN [a |-> a, reanchored |-> FALSE, filtered |-> a.sync_error_filtered_us]
    ELSE
      LET f == FilterUpdate(a.sync_error_filter, error_us)
          a1 == [ a EXCEPT !.sync_error_filter = f,
                           !.sync_error_filtered_us = f.value ]
          abs_err == RatAbs(f.value)
      IN IF RatLe(abs_err, CORRECTION_DEADBAND_US)
         THEN [a |-> [ a1 EXCEPT !.insert_every_n_frames = 0,
                                 !.drop_every_n_frames = 0 ],
               reanchored |-> FALSE, filtered |-> f.value]
         ELSE IF ReanchorDue(a1, abs_err, now)
         THEN [a |-> ClearPlayer([ a1 EXCEPT !.insert_every_n_frames = 0,
                                             !.drop_every_n_frames = 0,
                                             !.frames_until_next_insert = 0,
                                             !.frames_until_next_drop = 0,
                                             !.last_reanchor_loop_time_us = now ]),
               reanchored |-> TRUE, filtered |-> f.value]
         ELSE [a |-> PlanFor(a1, f.value, IntervalFrames(SampleRate(a1), abs_err)),
               reanchored |-> FALSE, filtered |-> f.value]

\* AudioPlayer._log_sync_status
LogSyncStatus(a) ==
    IF ~a.sync_error_filter.initialized THEN a
    ELSE IF now - a.last_sync_error_log_us >= MICROSECONDS_PER_SECOND
    THEN [ a EXCEPT !.last_sync_error_log_us = now,
                    !.frames_inserted_since_log = 0,
                    !.frames_dropped_since_log = 0 ]
    ELSE a

----------------------------------------------------------------------------
(* Submit path *)

Chunk(ts, data) == [server_timestamp_us |-> ts, audio_data |-> data]

\* the queue's put_nowait
QueuePut(q, chunk) == Append(q, chunk)

\* duration of `frames` frames, floor(frames * 10^6 / sample_rate)
DurationUs(frames, sample_rate) == (frames * MICROSECONDS_PER_SECOND) \div sample_rate

\* frames in a span of us microseconds, floor(us * sample_rate / 10^6)
FramesIn(us, sample_rate) == MulDiv(us, sample_rate, 0, MICROSECONDS_PER_SECOND)

\* the DAC start stored by submit: est_dac if est_dac else None
DacStart(est) == IF est.v # 0 THEN Some(est.v) ELSE None

\* a faulty variant of the first-chunk scheduling whose refresh recomputes
\* the start from the timestamp of the chunk being submitted
ScheduleStartFromChunk(a, server_timestamp_us) ==
    IF IsNone(a.scheduled_start_loop_time_us)
    THEN
      LET start == IF conv_ok THEN ComputeClientTime(server_timestamp_us) ELSE now
          a1 == [ a EXCEPT !.scheduled_start_loop_time_us = Some(start) ]
          est == EstimateDacTimeForServerTimestamp(a1, server_timestamp_us)
      IN IF est.raised THEN [a |-> a1, raised |-> TRUE]
         ELSE [a |-> [ a1 EXCEPT
                         !.scheduled_start_dac_time_us = DacStart(est),
                         !.playback_state = "WAITING_FOR_START",
                         !.first_server_timestamp_us = Some(server_timestamp_us),
                         !.early_start_suspect =
                             IF start - now <= EARLY_START_THRESHOLD_US THEN TRUE ELSE @ ],
               raised |-> FALSE]
    ELSE IF a.playback_state = "WAITING_FOR_START" /\ ~IsNone(a.first_server_timestamp_us)
            /\ conv_ok
    THEN
      LET updated_loop_start == ComputeClientTime(server_timestamp_us)
      IN IF Abs(updated_loop_start - Val(a.scheduled_start_loop_time_us))
              > START_TIME_UPDATE_THRESHOLD_US
         THEN LET a1 == [ a EXCEPT !.scheduled_start_loop_time_us =
                                       Some(updated_loop_start) ]
                  est == EstimateDacTimeForServerTimestamp(a1, server_timestamp_us)
              IN [a |-> [ a1 EXCEPT !.scheduled_start_dac_time_us = DacStart(est) ],
                  raised |-> FALSE]
         ELSE [a |-> a, raised |-> FALSE]
    ELSE [a |-> a, raised |-> FALSE]

\* submit, lines 878-911: first-chunk scheduling and start-time refresh;
\* [a, raised]: raised when the serverToClient callable raises out of
\* _estimate_dac_time_for_server_timestamp
ScheduleStart(a, server_timestamp_us) ==
    IF IsNone(a.scheduled_start_loop_time_us)
    THEN
      LET start == IF conv_ok THEN ComputeClientTime(server_timestamp_us) ELSE now
          a1 == [ a EXCEPT !.scheduled_start_loop_time_us = Some(start) ]
          est == EstimateDacTimeForServerTimestamp(a1, server_timestamp_us)
      IN IF est.raised THEN [a |-> a1, raised |-> TRUE]
         ELSE [a |-> [ a1 EXCEPT
                         !.scheduled_start_dac_time_us = DacStart(est),
                         !.playback_state = "WAITING_FOR_START",
                         !.first_server_timestamp_us = Some(server_timestamp_us),
                         !.early_start_suspect =
                             IF start - now <= EARLY_START_THRESHOLD_US THEN TRUE ELSE @ ],
               raised |-> FALSE]
    ELSE IF a.playback_state = "WAITING_FOR_START" /\ ~IsNone(a.first_server_timestamp_us)
            /\ conv_ok
    THEN
      LET updated_loop_start == ComputeClientTime(Val(a.first_server_timestamp_us))
      IN IF Abs(updated_loop_start - Val(a.scheduled_start_loop_time_us))
              > START_TIME_UPDATE_THRESHOLD_US
         THEN LET a1 == [ a EXCEPT !.scheduled_start_loop_time_us =
                                       Some(updated_loop_start) ]
                  est == EstimateDacTimeForServerTimestamp(
                             a1, Val(a.first_server_timestamp_us))
              IN [a |-> [ a1 EXCEPT !.scheduled_start_dac_time_us = DacStart(est) ],
                  raised |-> FALSE]
         ELSE [a |-> a, raised |-> FALSE]
    ELSE [a |-> a, raised |-> FALSE]

\* TRUE when submit feeds the correction scheduler
MeasuresSyncError(a) ==
    /\ a.playback_state = "PLAYING"
    /\ a.last_known_playback_position_us > 0
    /\ a.server_ts_cursor_us > 0

\* a faulty variant of the gap silence, stamped with the arriving timestamp
GapSilenceLate(exp, ts, sr, fs) == Chunk(ts, Zeros(FramesIn(ts - exp, sr) * fs))

\* submit, lines 931-942: the silence chunk that fills the gap from exp to ts
GapSilence(exp, ts, sr, fs) == Chunk(exp, Zeros(FramesIn(ts - exp, sr) * fs))

\* a faulty variant of the trim that cuts nothing from an overlapping chunk
TrimBytesNone(exp, ts, sr, fs) == 0

\* a faulty variant of the trim that rounds the overlap up to whole frames
TrimBytesUp(exp, ts, sr, fs) ==
    MulDiv(exp - ts, sr, ROUND_UP_US, MICROSECONDS_PER_SECOND) * fs

\* submit, lines 952-956: bytes to cut from the head of a chunk that starts
\* at ts, before exp
TrimBytes(exp, ts, sr, fs) == FramesIn(exp - ts, sr) * fs

\* submit, lines 926-977: gap / overlap reconciliation and the enqueue;
\* [a, added, skipped] with added the chunks put on the queue and skipped
\* TRUE when submit returns at the overlap that covers the whole chunk
Reconcile(a, ts, payload) ==
    LET sr == SampleRate(a)
        fs == FrameSize(a)
        exp == a.expected_next_timestamp
        enqueue(b, t, data) ==
            IF Len(data) > 0
            THEN [ b EXCEPT
                     !.queue = QueuePut(@, Chunk(t, data)),
                     !.queued_duration_us = @ + DurationUs(Len(data) \div fs, sr),
                     !.expected_next_timestamp =
                         Some(t + DurationUs(Len(data) \div fs, sr)) ]
            ELSE b
    IN IF IsNone(exp)
       THEN [a |-> enqueue([a EXCEPT !.expected_next_timestamp = Some(ts)], ts, payload),
             added |-> IF Len(payload) > 0 THEN <<Chunk(ts, payload)>> ELSE <<>>,
             skipped |-> FALSE]
       ELSE IF ts > Val(exp)
       THEN
         LET silence == GapSilence(Val(exp), ts, sr, fs)
             gap_frames == Len(silence.audio_data) \div fs
             a1 == [ a EXCEPT
                       !.queue = QueuePut(@, silence),
                       !.queued_duration_us = @ + DurationUs(gap_frames, sr),
                       !.expected_next_timestamp = Some(ts) ]
         IN [a |-> enqueue(a1, ts, payload),
             added |-> <<silence>> \o
                       (IF Len(payload) > 0 THEN <<Chunk(ts, payload)>> ELSE <<>>),
             skipped |-> FALSE]
       ELSE IF ts < Val(exp)
       THEN
         LET trim_bytes == TrimBytes(Val(exp), ts, sr, fs)
         IN IF trim_bytes < Len(payload)
            THEN [a |-> enqueue(a, Val(exp), Drop(payload, trim_bytes)),
                  added |-> <<Chunk(Val(exp), Drop(payload, trim_bytes))>>,
                  skipped |-> FALSE]
            ELSE [a |-> a, added |-> <<>>, skipped |-> TRUE]
       ELSE [a |-> enqueue(a, ts, payload),
             added |-> IF Len(payload) > 0 THEN <<Chunk(ts, payload)>> ELSE <<>>,
             skipped |-> FALSE]

\* submit, lines 979-991: start the stream when the first chunk is queued
StartStream(a) ==
    IF ~a.stream_started /\ Len(a.queue) > 0 /\ a.stream # "none"
    THEN [ a EXCEPT !.stream_started = TRUE ]
    ELSE a

\* a faulty variant of the size check that lets every payload through
MisalignedNever(payload, frame_size) == FALSE

\* submit, line 868: the payload is not a whole number of frames
Misaligned(payload, frame_size) == Len(payload) % frame_size # 0

\* a faulty variant of submit that forgets the deferred clear: the request is
\* acknowledged but the player is not reset
SubmitKeepsState(a, server_timestamp_us, payload) ==
    LET a0 == [ a EXCEPT !.clear_requested = FALSE ]
    IN IF IsNone(a0.format) \/ Len(payload) % FrameSize(a0) # 0
       THEN [a |-> a0, added |-> <<>>, cleared |-> a.clear_requested,
             reanchored |-> FALSE, raised |-> FALSE, measured |-> FALSE,
             filtered |-> RatZero, valid |-> FALSE]
       ELSE LET s == ScheduleStart(a0, server_timestamp_us)
                r == Reconcile(s.a, server_timestamp_us, payload)
            IN [a |-> IF r.skipped THEN r.a ELSE StartStream(r.a),
                added |-> r.added, cleared |-> a.clear_requested,
                reanchored |-> FALSE, raised |-> FALSE, measured |-> FALSE,
                filtered |-> RatZero, valid |-> TRUE]

\* AudioPlayer.submit: [a, added, cleared, reanchored, raised, measured,
\* filtered, valid]; cleared: clear ran for a deferred underflow; valid: the
\* chunk passed the format and alignment checks
Submit(a, server_timestamp_us, payload) ==
    LET a0 == IF a.clear_requested THEN ClearPlayer(a) ELSE a
        none == [a |-> a0, added |-> <<>>, cleared |-> a.clear_requested,
                 reanchored |-> FALSE, raised |-> FALSE, measured |-> FALSE,
                 filtered |-> RatZero, valid |-> FALSE]
    IN IF IsNone(a0.format) THEN none
       ELSE IF FrameSize(a0) = 0 THEN none
       ELSE IF Misaligned(payload, FrameSize(a0)) THEN none
       ELSE
         LET s == ScheduleStart(a0, server_timestamp_us)
         IN IF s.raised THEN [ none EXCEPT !.a = s.a, !.raised = TRUE, !.valid = TRUE ]
            ELSE
              LET measured == MeasuresSyncError(s.a)
                  c == IF measured
                       THEN UpdateCorrectionSchedule(
                                s.a, s.a.last_known_playback_position_us
                                       - s.a.server_ts_cursor_us)
                       ELSE [a |-> s.a, reanchored |-> FALSE, filtered |-> RatZero]
                  r == Reconcile(LogSyncStatus(c.a), server_timestamp_us, payload)
              IN [a |-> IF r.skipped THEN r.a ELSE StartStream(r.a),
                  added |-> r.added, cleared |-> a.clear_requested,
                  reanchored |-> c.reanchored, raised |-> FALSE,
                  measured |-> measured, filtered |-> c.filtered, valid |-> TRUE]

----------------------------------------------------------------------------
(* Inputs of the operations *)

Formats == { [sample_rate |-> 1000, frame_size |-> 2] }
Payloads == { <<1, 2>>, <<3, 4, 5, 6>>, <<7, 8, 9>>, <<>> }
Volumes == { 100 }
Statuses == { "none", "output_underflow" }
\* timestamp of a chunk: relative to the server's present for the first
\* chunk after a clear, relative to expected_next_timestamp afterwards
Leads == { 0, 600000 }
Gaps == { 0 - 1500, 0, 2500 }
TickSteps == { 600000 }
Skews == { 0, 600000 }
StartTimes == { 4400000 }
DacLatency == 2000

Timestamps(leads, gaps) ==
    IF IsNone(ap.expected_next_timestamp)
    THEN { ComputeServerTime(now) + d : d \in leads }
    ELSE { Val(ap.expected_next_timestamp) + g : g \in gaps }

\* outputBufferDacTime of a callback at the present loop time
DacTime == IF dac_on THEN now + DacLatency ELSE 0

----------------------------------------------------------------------------
(* State machine *)

\* SendspinBridge.__init__: stream_active, paused, volume, muted, is_ducked
\* and current_format are the fields of these names; player is TRUE while
\* _player holds the AudioPlayer ap, FALSE while it is None
BridgeInit ==
    [ stream_active |-> FALSE, paused |-> FALSE, player |-> FALSE,
      current_format |-> None, volume |-> 100, muted |-> FALSE,
      is_ducked |-> FALSE ]

\* both threads outside every operation; ctl and aud name the position of the
\* control thread and of the audio thread, the other fields are the locals
\* an operation in progress holds
PcIdle ==
    [ ctl |-> "idle", ts |-> 0, payload |-> <<>>,
      aud |-> "idle", frames |-> 0, silence |-> 0, insert_every_n |-> 0 ]

NoOp ==
    [ name |-> "init", ts |-> 0, payload |-> <<>>, frames |-> 0, dac |-> 0,
      status |-> "none", path |-> "", added |-> <<>>, cleared |-> FALSE,
      reanchored |-> FALSE, raised |-> FALSE, measured |-> FALSE,
      filtered |-> RatZero, valid |-> FALSE, raw |-> <<>>, emit |-> <<>>,
      prev |-> "", volume |-> 0, muted |-> FALSE, snap |-> <<0, 0>> ]

Init ==
    /\ ap = PlayerInit
    /\ now \in StartTimes
    /\ skew = 0
    /\ conv_ok = TRUE
    /\ dac_on \in BOOLEAN
    /\ outdata = <<>>
    /\ op = NoOp
    /\ enq = <<>>
    /\ emitted = <<>>
    /\ anchor_at = None
    /\ steps = 0
    /\ pc = PcIdle
    /\ br = BridgeInit

DoSetFormat(fmt) ==
    /\ ap' = SetFormatPlayer(ap, fmt)
    /\ op' = [NoOp EXCEPT !.name = "set_format"]
    /\ UNCHANGED <<now, skew, conv_ok, dac_on, outdata, enq, emitted, anchor_at, pc, br>>

DoSetVolume(volume, muted) ==
    /\ ap' = SetVolumePlayer(ap, volume, muted)
    /\ op' = [NoOp EXCEPT !.name = "set_volume", !.volume = volume, !.muted = muted]
    /\ UNCHANGED <<now, skew, conv_ok, dac_on, outdata, enq, emitted, anchor_at, pc, br>>

DoClear ==
    /\ ap' = ClearPlayer(ap)
    /\ op' = [NoOp EXCEPT !.name = "clear", !.prev = op.name]
    /\ enq' = <<>>
    /\ emitted' = <<>>
    /\ UNCHANGED <<now, skew, conv_ok, dac_on, outdata, anchor_at, pc, br>>

DoStop ==
    /\ ~ap.closed
    /\ ap' = StopPlayer(ap)
    /\ op' = [NoOp EXCEPT !.name = "stop"]
    /\ UNCHANGED <<now, skew, conv_ok, dac_on, outdata, enq, emitted, anchor_at, pc, br>>

\* the filter's rational stays within MaxFilterDen decimal places
FilterRoom(a) ==
    ~MeasuresSyncError(a) \/ a.clear_requested \/ a.sync_error_filter.value.d <= MaxFilterDen

DoSubmit(ts, payload) ==
    /\ FilterRoom(ap)
    /\ LET r == Submit(ap, ts, payload)
           wiped == r.cleared \/ r.reanchored
       IN /\ ap' = r.a
          /\ op' = [NoOp EXCEPT !.name = "submit", !.ts = ts, !.payload = payload,
                                !.added = r.added, !.cleared = r.cleared,
                                !.reanchored = r.reanchored, !.raised = r.raised,
                                !.measured = r.measured, !.filtered = r.filtered,
                                !.valid = r.valid]
          /\ enq' = (IF wiped THEN <<>> ELSE enq) \o Flatten(r.added)
          /\ emitted' = IF wiped THEN <<>> ELSE emitted
          /\ anchor_at' = IF r.reanchored THEN Some(now) ELSE anchor_at
    /\ UNCHANGED <<now, skew, conv_ok, dac_on, outdata, pc, br>>

\* lines 347-348: the pair <<insert_every_n, drop_every_n>> a callback that
\* returned r took at entry; <<0, 0>> when it returned before taking it
Snapshot(r) ==
    IF r.path \in {"noformat", "underflow", "gate"} THEN <<0, 0>>
    ELSE <<r.a.insert_every_n_frames, r.a.drop_every_n_frames>>

\* the effect of a callback that returned r
CallbackEffect(r, frames, status) ==
    /\ ap' = r.a
    /\ outdata' = r.out
    /\ op' = [NoOp EXCEPT !.name = "callback", !.frames = frames,
                          !.dac = DacTime, !.status = status,
                          !.path = r.path, !.raw = r.raw, !.emit = r.emit,
                          !.snap = Snapshot(r)]
    /\ emitted' = emitted \o r.emit

\* the device calls back only on an open, started stream
DoCallback(frames, status) ==
    /\ ap.stream = "open" /\ ap.stream_started
    /\ CallbackEffect(AudioCallback(ap, frames, DacTime, status), frames, status)
    /\ UNCHANGED <<now, skew, conv_ok, dac_on, enq, anchor_at, pc, br>>

\* time passes on the loop clock
Tick(d) ==
    /\ now + d <= MaxNow
    /\ now' = now + d
    /\ op' = [NoOp EXCEPT !.name = "tick"]
    /\ UNCHANGED <<ap, skew, conv_ok, dac_on, outdata, enq, emitted, anchor_at, pc, br>>

\* the clock-sync protocol refines the conversion functions
Resync(k) ==
    /\ k # skew
    /\ skew' = k
    /\ op' = [NoOp EXCEPT !.name = "resync"]
    /\ UNCHANGED <<ap, now, conv_ok, dac_on, outdata, enq, emitted, anchor_at, pc, br>>

\* one more operation, up to `limit` operations in a behaviour
Count(limit) == steps < limit /\ steps' = steps + 1

Next ==
    /\ Count(MaxSteps)
    /\ \/ \E fmt \in Formats : DoSetFormat(fmt)
       \/ \E v \in Volumes, m \in BOOLEAN : DoSetVolume(v, m)
       \/ DoClear
       \/ DoStop
       \/ \E ts \in Timestamps(Leads, Gaps), p \in Payloads : DoSubmit(ts, p)
       \/ \E st \in Statuses : DoCallback(BlockFrames, st)
       \/ \E d \in TickSteps : Tick(d)
       \/ \E k \in Skews : Resync(k)

Spec == Init /\ [][Next]_vars

TypeOK ==
    /\ ap.playback_state \in {"INITIALIZING", "WAITING_FOR_START", "PLAYING"}
    /\ now <= MaxNow

----------------------------------------------------------------------------
(* Drift scenarios: one stream of equal chunks played in large blocks while *)
(* the clocks move apart by more than the re-anchor threshold               *)

DriftPayloads == { <<3, 4, 5, 6>> }
DriftLeads == { 0 }
DriftGaps == { 0 }
DriftStartTimes == { 5000000 }

InitDrift ==
    /\ ap = PlayerInit
    /\ now \in DriftStartTimes
    /\ skew = 0
    /\ conv_ok = TRUE
    /\ dac_on \in BOOLEAN
    /\ outdata = <<>>
    /\ op = NoOp
    /\ enq = <<>>
    /\ emitted = <<>>
    /\ anchor_at = None
    /\ steps = 0
    /\ pc = PcIdle
    /\ br = BridgeInit

NextDrift ==
    /\ Count(MaxDriftSteps)
    /\ \/ \E fmt \in Formats : DoSetFormat(fmt)
       \/ DoClear
       \/ \E ts \in Timestamps(DriftLeads, DriftGaps), p \in DriftPayloads : DoSubmit(ts, p)
       \/ \E st \in Statuses : DoCallback(DriftBlockFrames, st)
       \/ \E d \in TickSteps : Tick(d)
       \/ \E k \in Skews : Resync(k)

SpecDrift == InitDrift /\ [][NextDrift]_vars

----------------------------------------------------------------------------
(* Format-change scenarios: the format is replaced while chunks of the old  *)
(* format are queued and a correction plan is active                        *)

ReformatFormats ==
    { [sample_rate |-> 1000, frame_size |-> 2], [sample_rate |-> 1000, frame_size |-> 4] }
ReformatPayloads == { <<1, 2>>, <<>> }

NextReformat ==
    /\ Count(MaxReformatSteps)
    /\ \/ \E fmt \in ReformatFormats : DoSetFormat(fmt)
       \/ \E ts \in Timestamps(DriftLeads, DriftGaps), p \in ReformatPayloads : DoSubmit(ts, p)
       \/ \E st \in Statuses : DoCallback(DriftBlockFrames, st)
       \/ \E d \in TickSteps : Tick(d)

SpecReformat == Init /\ [][NextReformat]_vars

----------------------------------------------------------------------------
(* Overlap scenarios: chunks of 100 ms submitted under absolute timestamps  *)

\* 100 ms of audio at 1000 Hz, two bytes a frame
HundredMs == [ i \in 1..200 |-> 1 + (i % 7) ]
OverlapPayloads == { HundredMs }
OverlapTimestamps == { 0, 40000 }
MaxOverlapSteps == 6

NextOverlap ==
    /\ Count(MaxOverlapSteps)
    /\ \/ \E fmt \in Formats : DoSetFormat(fmt)
       \/ DoClear
       \/ \E ts \in OverlapTimestamps, p \in OverlapPayloads : DoSubmit(ts, p)
       \/ \E st \in Statuses : DoCallback(DriftBlockFrames, st)
       \/ \E d \in TickSteps : Tick(d)

SpecOverlap == Init /\ [][NextOverlap]_vars

----------------------------------------------------------------------------
(* Start scenarios: the first chunk is scheduled 250 ms ahead and the       *)
(* device asks for blocks of 100 ms                                         *)

StartLeads == { 250000 }
StartTicks == { 100000 }
StartBlockFrames == 100
MaxStartSteps == 6

NextStart ==
    /\ Count(MaxStartSteps)
    /\ \/ \E fmt \in Formats : DoSetFormat(fmt)
       \/ \E ts \in Timestamps(StartLeads, DriftGaps), p \in DriftPayloads : DoSubmit(ts, p)
       \/ \E st \in Statuses : DoCallback(StartBlockFrames, st)
       \/ \E d \in StartTicks : Tick(d)

SpecStart == Init /\ [][NextStart]_vars

----------------------------------------------------------------------------
(* Volume scenarios: one-channel int16 samples played at several volumes    *)

VolumeLevels == { 0 - 20, 0, 50, 100, 130 }
\* the samples 7, -7, then 12 and 8, then 32767 and -32768, little-endian
VolumePayloads == { <<7, 0>>, <<249, 255>>, <<12, 0, 8, 0>>, <<255, 127, 0, 128>> }
MaxVolumeSteps == 5

NextVolume ==
    /\ Count(MaxVolumeSteps)
    /\ \/ \E fmt \in Formats : DoSetFormat(fmt)
       \/ \E v \in VolumeLevels, m \in BOOLEAN : DoSetVolume(v, m)
       \/ \E ts \in Timestamps(DriftLeads, DriftGaps), p \in VolumePayloads : DoSubmit(ts, p)
       \/ \E st \in Statuses : DoCallback(BlockFrames, st)
       \/ \E d \in TickSteps : Tick(d)

SpecVolume == Init /\ [][NextVolume]_vars

----------------------------------------------------------------------------
(* Conversion-fault scenarios: the drift scenarios with time-conversion     *)
(* callables that start and stop raising                                    *)

MaxFaultSteps == 8

\* the injected compute_client_time / compute_server_time begin or cease to raise
ConvFault(b) ==
    /\ b # conv_ok
    /\ conv_ok' = b
    /\ op' = [NoOp EXCEPT !.name = "conv_fault"]
    /\ UNCHANGED <<ap, now, skew, dac_on, outdata, enq, emitted, anchor_at, pc, br>>

NextFault ==
    /\ Count(MaxFaultSteps)
    /\ \/ \E fmt \in Formats : DoSetFormat(fmt)
       \/ \E ts \in Timestamps(DriftLeads, DriftGaps), p \in DriftPayloads : DoSubmit(ts, p)
       \/ \E st \in Statuses : DoCallback(DriftBlockFrames, st)
       \/ \E d \in TickSteps : Tick(d)
       \/ \E k \in Skews : Resync(k)
       \/ \E b \in BOOLEAN : ConvFault(b)

SpecFault == InitDrift /\ [][NextFault]_vars

----------------------------------------------------------------------------
(* Cursor scenarios: chunks that follow each other with an overlap, without *)
(* a gap or after a gap of whole frames                                     *)

CursorGaps == { 0 - 1500, 0, 2000 }
CursorPayloads == { <<1, 2>>, <<3, 4, 5, 6>> }
MaxCursorSteps == 6

NextCursor ==
    /\ Count(MaxCursorSteps)
    /\ \/ \E fmt \in Formats : DoSetFormat(fmt)
       \/ DoClear
       \/ \E ts \in Timestamps(Leads, CursorGaps), p \in CursorPayloads : DoSubmit(ts, p)
       \/ \E st \in Statuses : DoCallback(BlockFrames, st)
       \/ \E d \in TickSteps : Tick(d)

SpecCursor == Init /\ [][NextCursor]_vars

----------------------------------------------------------------------------
(* Interval scenarios: the clock-sync protocol moves the playback position  *)
(* of a playing stream so that the sync error takes values on both sides of *)
(* the deadband and of the cap on the correction rate                       *)

IntervalErrors == { 2000, 2001, 2500, 80000, 80001, 450000 }
\* a chunk of two frames has been read when the error is first measured: the
\* cursor is 2000 us past the position at skew 0
IntervalSkews ==
    {0} \cup { e - 2000 : e \in IntervalErrors } \cup { 0 - 2000 - e : e \in IntervalErrors }
MaxIntervalSteps == 7

NextInterval ==
    /\ Count(MaxIntervalSteps)
    /\ \/ \E fmt \in Formats : DoSetFormat(fmt)
       \/ \E ts \in Timestamps(DriftLeads, DriftGaps), p \in DriftPayloads : DoSubmit(ts, p)
       \/ DoCallback(DriftBlockFrames, "none")
       \/ \E k \in IntervalSkews : Resync(k)

SpecInterval == Init /\ [][NextInterval]_vars

----------------------------------------------------------------------------
(* Correction scenarios: chunks longer than a callback block, at a sample   *)
(* rate that does not divide 10^6, played while the clocks move apart so    *)
(* that drop and insert plans meet buffered audio                           *)

RateFormats == { [sample_rate |-> 1500, frame_size |-> 2] }
\* 31 frames of two bytes
LongChunk == [ i \in 1..62 |-> 1 + (i % 7) ]
SlowPayloads == { LongChunk }
\* a start at once, and one far enough ahead not to be an early-start suspect
SlowLeads == { 0, 800000 }
MaxSlowSteps == 7

NextSlow ==
    /\ Count(MaxSlowSteps)
    /\ \/ \E fmt \in RateFormats : DoSetFormat(fmt)
       \/ DoClear
       \/ \E ts \in Timestamps(SlowLeads, DriftGaps), p \in SlowPayloads : DoSubmit(ts, p)
       \/ DoCallback(DriftBlockFrames, "none")
       \/ \E d \in TickSteps : Tick(d)
       \/ \E k \in Skews : Resync(k)

SpecSlow == Init /\ [][NextSlow]_vars

----------------------------------------------------------------------------
(* Start-refresh scenarios: the clock-sync protocol moves the conversion by *)
(* little more or less than the refresh threshold while a stream scheduled  *)
(* 800 ms ahead waits for its start                                         *)

RefreshLeads == { 800000 }
RefreshSkews == { 0 - 5001, 0 - 5000, 0, 5000, 5001 }
MaxRefreshSteps == 6

NextRefresh ==
    /\ Count(MaxRefreshSteps)
    /\ \/ \E fmt \in Formats : DoSetFormat(fmt)
       \/ \E ts \in Timestamps(RefreshLeads, DriftGaps), p \in DriftPayloads : DoSubmit(ts, p)
       \/ \E st \in Statuses : DoCallback(BlockFrames, st)
       \/ \E d \in TickSteps : Tick(d)
       \/ \E k \in RefreshSkews : Resync(k)

SpecRefresh == Init /\ [][NextRefresh]_vars

----------------------------------------------------------------------------
(* Thread-interleaving scenarios for the correction plan: submit runs on    *)
(* the control thread, the callback on the audio thread, and a thread       *)
(* switch may fall between the two assignments of the plan (lines 813-814,  *)
(* 817-818) and between the two reads of the snapshot (lines 347-348)       *)

RaceSkews == { 0, 500, 0 - 452000 }
MaxRaceSteps == 10

\* _update_correction_schedule reaches the proportional control (line 796)
PlansCorrection(a, error_us) ==
    /\ ~IsNone(a.format) /\ SampleRate(a) > 0
    /\ ~RatLe(RatAbs(FilterUpdate(a.sync_error_filter, error_us).value),
              CORRECTION_DEADBAND_US)
    /\ ~ReanchorDue(a, RatAbs(FilterUpdate(a.sync_error_filter, error_us).value), now)

\* line 769: the filter takes the measurement
SmoothSyncError(a, error_us) ==
    [ a EXCEPT !.sync_error_filter = FilterUpdate(a.sync_error_filter, error_us),
               !.sync_error_filtered_us = FilterUpdate(a.sync_error_filter, error_us).value ]

\* line 813 or line 817: the first assignment of the plan
PlanFirstWrite(a, interval_frames) ==
    IF a.sync_error_filtered_us.n > 0
    THEN [ a EXCEPT !.drop_every_n_frames = interval_frames ]
    ELSE [ a EXCEPT !.insert_every_n_frames = interval_frames ]

\* line 814 or line 818: the second assignment of the plan
PlanSecondWrite(a) ==
    IF a.sync_error_filtered_us.n > 0
    THEN [ a EXCEPT !.insert_every_n_frames = 0 ]
    ELSE [ a EXCEPT !.drop_every_n_frames = 0 ]

\* submit from its entry to the first assignment of the plan
SubmitToPlan(a, error_us) ==
    PlanFirstWrite(SmoothSyncError(a, error_us),
                   IntervalFrames(SampleRate(a),
                                  RatAbs(FilterUpdate(a.sync_error_filter, error_us).value)))

\* the control thread runs submit up to the first assignment of the plan
SubmitPlanBegin(ts, payload) ==
    /\ pc.ctl = "idle"
    /\ FilterRoom(ap)
    /\ ~ap.clear_requested
    /\ ~IsNone(ap.format) /\ FrameSize(ap) # 0 /\ ~Misaligned(payload, FrameSize(ap))
    /\ ~ScheduleStart(ap, ts).raised
    /\ MeasuresSyncError(ScheduleStart(ap, ts).a)
    /\ PlansCorrection(ScheduleStart(ap, ts).a,
                       ap.last_known_playback_position_us - ap.server_ts_cursor_us)
    /\ ap' = SubmitToPlan(ScheduleStart(ap, ts).a,
                          ap.last_known_playback_position_us - ap.server_ts_cursor_us)
    /\ pc' = [pc EXCEPT !.ctl = "plan", !.ts = ts, !.payload = payload]
    /\ op' = [NoOp EXCEPT !.name = "submit_plan", !.ts = ts, !.payload = payload]
    /\ UNCHANGED <<now, skew, conv_ok, dac_on, outdata, enq, emitted, anchor_at, br>>

\* submit from the second assignment of the plan to its return: [a, added]
SubmitFromPlan(a, ts, payload) ==
    [a |-> IF Reconcile(LogSyncStatus(PlanSecondWrite(a)), ts, payload).skipped
           THEN Reconcile(LogSyncStatus(PlanSecondWrite(a)), ts, payload).a
           ELSE StartStream(Reconcile(LogSyncStatus(PlanSecondWrite(a)), ts, payload).a),
     added |-> Reconcile(LogSyncStatus(PlanSecondWrite(a)), ts, payload).added]

\* the control thread finishes the submit it began
SubmitPlanEnd ==
    /\ pc.ctl = "plan"
    /\ ap' = SubmitFromPlan(ap, pc.ts, pc.payload).a
    /\ pc' = [pc EXCEPT !.ctl = "idle", !.ts = 0, !.payload = <<>>]
    /\ op' = [NoOp EXCEPT !.name = "submit", !.ts = pc.ts, !.payload = pc.payload,
                          !.added = SubmitFromPlan(ap, pc.ts, pc.payload).added,
                          !.measured = TRUE, !.filtered = ap.sync_error_filtered_us,
                          !.valid = TRUE]
    /\ enq' = enq \o Flatten(SubmitFromPlan(ap, pc.ts, pc.payload).added)
    /\ UNCHANGED <<now, skew, conv_ok, dac_on, outdata, emitted, anchor_at, br>>

\* the audio thread runs a callback through lines 312-347: calibration, gate,
\* and the read of insert_every_n_frames
CallbackSnapshotBegin(frames) ==
    /\ pc.aud = "idle"
    /\ ap.stream = "open" /\ ap.stream_started
    /\ ~IsNone(ap.format)
    /\ Gate(UpdatePlaybackPositionFromDac(ap, DacTime), frames, DacTime).a.playback_state
         # "WAITING_FOR_START"
    /\ ap' = Gate(UpdatePlaybackPositionFromDac(ap, DacTime), frames, DacTime).a
    /\ pc' = [pc EXCEPT
                !.aud = "snapshot", !.frames = frames,
                !.silence = Gate(UpdatePlaybackPositionFromDac(ap, DacTime),
                                 frames, DacTime).silence,
                !.insert_every_n = ap.insert_every_n_frames]
    /\ op' = [NoOp EXCEPT !.name = "callback_entry", !.frames = frames, !.dac = DacTime]
    /\ UNCHANGED <<now, skew, conv_ok, dac_on, outdata, enq, emitted, anchor_at, br>>

\* lines 350-423 for the player a carrying the snapshot in its two interval
\* fields, entered with `silence` bytes written
ProduceSnapshot(a, silence, frames) ==
    IF a.insert_every_n_frames = 0 /\ a.drop_every_n_frames = 0
    THEN Recover(FastPath(a, Zeros(silence), frames), "fast", frames * FrameSize(a))
    ELSE Recover(SlowPath(a, Zeros(silence), frames), "slow", frames * FrameSize(a))

\* lines 348-436 of a callback that read insert_every_n before a thread switch:
\* the locals take the place of the fields while the buffer is filled, and the
\* fields keep what the control thread wrote
CallbackFromSnapshot(a, insert_every_n, silence, frames) ==
    [ Scaled(ProduceSnapshot([ a EXCEPT !.insert_every_n_frames = insert_every_n ],
                             silence, frames))
        EXCEPT !.a.insert_every_n_frames = a.insert_every_n_frames ]

\* the audio thread reads drop_every_n_frames and finishes its callback
CallbackSnapshotEnd ==
    /\ pc.aud = "snapshot"
    /\ ap' = CallbackFromSnapshot(ap, pc.insert_every_n, pc.silence, pc.frames).a
    /\ outdata' = CallbackFromSnapshot(ap, pc.insert_every_n, pc.silence, pc.frames).out
    /\ op' = [NoOp EXCEPT
                !.name = "callback", !.frames = pc.frames,
                !.path = CallbackFromSnapshot(ap, pc.insert_every_n, pc.silence, pc.frames).path,
                !.raw = CallbackFromSnapshot(ap, pc.insert_every_n, pc.silence, pc.frames).raw,
                !.emit = CallbackFromSnapshot(ap, pc.insert_every_n, pc.silence, pc.frames).emit,
                !.snap = <<pc.insert_every_n, ap.drop_every_n_frames>>]
    /\ emitted' = emitted
                    \o CallbackFromSnapshot(ap, pc.insert_every_n, pc.silence, pc.frames).emit
    /\ pc' = [pc EXCEPT !.aud = "idle", !.frames = 0, !.silence = 0, !.insert_every_n = 0]
    /\ UNCHANGED <<now, skew, conv_ok, dac_on, enq, anchor_at, br>>

\* set_format closes the stream, which waits for a callback in progress; each
\* thread runs one operation at a time
NextRace ==
    /\ Count(MaxRaceSteps)
    /\ \/ \E fmt \in Formats : pc.ctl = "idle" /\ pc.aud = "idle" /\ DoSetFormat(fmt)
       \/ \E ts \in Timestamps(DriftLeads, DriftGaps), p \in DriftPayloads :
              pc.ctl = "idle" /\ DoSubmit(ts, p)
       \/ \E ts \in Timestamps(DriftLeads, DriftGaps), p \in DriftPayloads :
              SubmitPlanBegin(ts, p)
       \/ SubmitPlanEnd
       \/ pc.aud = "idle" /\ DoCallback(DriftBlockFrames, "none")
       \/ CallbackSnapshotBegin(DriftBlockFrames)
       \/ CallbackSnapshotEnd
       \/ \E k \in RaceSkews : Resync(k)

SpecRace == Init /\ [][NextRace]_vars

----------------------------------------------------------------------------
(* Thread-interleaving scenarios for clear: clear acknowledges the request  *)
(* of the audio thread on line 259 and stops the stream on line 264, and a  *)
(* callback may run between the two                                         *)

MaxClearSteps == 7

\* lines 260-302: clear after its first statement; stream.stop() returns once
\* no callback is in progress
ClearFromStop(a) ==
    [ ClearPlayer(a) EXCEPT !.clear_requested = a.clear_requested ]

\* the control thread enters clear and runs line 259
ClearBegin ==
    /\ pc.ctl = "idle"
    /\ ap' = [ ap EXCEPT !.clear_requested = FALSE ]
    /\ pc' = [pc EXCEPT !.ctl = "clear"]
    /\ op' = [NoOp EXCEPT !.name = "clear_entry"]
    /\ UNCHANGED <<now, skew, conv_ok, dac_on, outdata, enq, emitted, anchor_at, br>>

\* the control thread finishes the clear it began
ClearEnd ==
    /\ pc.ctl = "clear" /\ pc.aud = "idle"
    /\ ap' = ClearFromStop(ap)
    /\ pc' = [pc EXCEPT !.ctl = "idle"]
    /\ op' = [NoOp EXCEPT !.name = "clear", !.prev = op.name]
    /\ enq' = <<>>
    /\ emitted' = <<>>
    /\ UNCHANGED <<now, skew, conv_ok, dac_on, outdata, anchor_at, br>>

\* the control thread enters submit with a clear requested and runs lines
\* 858-860 and line 259
SubmitClearBegin(ts, payload) ==
    /\ pc.ctl = "idle"
    /\ ap.clear_requested
    /\ ap' = [ ap EXCEPT !.clear_requested = FALSE ]
    /\ pc' = [pc EXCEPT !.ctl = "submit_clear", !.ts = ts, !.payload = payload]
    /\ op' = [NoOp EXCEPT !.name = "submit_entry", !.ts = ts, !.payload = payload]
    /\ UNCHANGED <<now, skew, conv_ok, dac_on, outdata, enq, emitted, anchor_at, br>>

\* submit from line 863 on, for a player just cleared: no statement there
\* reads or writes clear_requested
SubmitAfterClear(a, ts, payload) ==
    [ Submit([ a EXCEPT !.clear_requested = FALSE ], ts, payload)
        EXCEPT !.a.clear_requested = a.clear_requested, !.cleared = TRUE ]

\* the control thread finishes the clear and the submit it began
SubmitClearEnd ==
    /\ pc.ctl = "submit_clear" /\ pc.aud = "idle"
    /\ ap' = SubmitAfterClear(ClearFromStop(ap), pc.ts, pc.payload).a
    /\ pc' = [pc EXCEPT !.ctl = "idle", !.ts = 0, !.payload = <<>>]
    /\ op' = [NoOp EXCEPT
                !.name = "submit", !.ts = pc.ts, !.payload = pc.payload,
                !.added = SubmitAfterClear(ClearFromStop(ap), pc.ts, pc.payload).added,
                !.cleared = TRUE,
                !.raised = SubmitAfterClear(ClearFromStop(ap), pc.ts, pc.payload).raised,
                !.valid = SubmitAfterClear(ClearFromStop(ap), pc.ts, pc.payload).valid]
    /\ enq' = Flatten(SubmitAfterClear(ClearFromStop(ap), pc.ts, pc.payload).added)
    /\ emitted' = <<>>
    /\ UNCHANGED <<now, skew, conv_ok, dac_on, outdata, anchor_at, br>>

\* each thread runs one operation at a time; the device calls back while the
\* stream is started, also while the control thread stands inside clear
NextClear ==
    /\ Count(MaxClearSteps)
    /\ \/ \E fmt \in Formats : pc.ctl = "idle" /\ DoSetFormat(fmt)
       \/ pc.ctl = "idle" /\ DoClear
       \/ ClearBegin
       \/ ClearEnd
       \/ \E ts \in Timestamps(DriftLeads, DriftGaps), p \in DriftPayloads :
              pc.ctl = "idle" /\ DoSubmit(ts, p)
       \/ \E ts \in Timestamps(DriftLeads, DriftGaps), p \in DriftPayloads :
              SubmitClearBegin(ts, p)
       \/ SubmitClearEnd
       \/ \E st \in Statuses : DoCallback(BlockFrames, st)
       \/ \E d \in TickSteps : Tick(d)

SpecClear == Init /\ [][NextClear]_vars

----------------------------------------------------------------------------
(* Boundary scenarios: chunks of 100 ms played in blocks of 26 frames under *)
(* a plan whose interval is the block size, so that the countdown of the    *)
(* plan runs out on the last frame of a callback buffer                     *)

\* two blocks have been read when the error is measured: the cursor is
\* 52 000 us past the position at skew 0; the errors are -75 000 and +75 000
BoundarySkews == { 0, 23000, 0 - 127000 }
MaxBoundarySteps == 8

NextBoundary ==
    /\ Count(MaxBoundarySteps)
    /\ \/ \E fmt \in Formats : DoSetFormat(fmt)
       \/ \E ts \in Timestamps(DriftLeads, DriftGaps), p \in OverlapPayloads : DoSubmit(ts, p)
       \/ DoCallback(DriftBlockFrames, "none")
       \/ \E k \in BoundarySkews : Resync(k)

SpecBoundary == Init /\ [][NextBoundary]_vars

----------------------------------------------------------------------------
(* Calibration scenarios: one stream and a device that calls back once a    *)
(* millisecond, more often than the ring has places; the stream is set up,  *)
(* and the device reports underflows, within the first five steps           *)

RingTicks == { 1000 }
MaxRingSteps == 204

NextRing ==
    /\ Count(MaxRingSteps)
    /\ \/ \E fmt \in Formats : steps < 5 /\ DoSetFormat(fmt)
       \/ \E ts \in Timestamps(DriftLeads, DriftGaps), p \in DriftPayloads :
              steps < 5 /\ DoSubmit(ts, p)
       \/ \E st \in Statuses :
              /\ op.name # "callback"
              /\ st = "none" \/ steps < 5
              /\ DoCallback(BlockFrames, st)
       \/ \E d \in RingTicks : op.name = "callback" /\ Tick(d)

SpecRing == Init /\ [][NextRing]_vars

----------------------------------------------------------------------------
(* SendspinBridge: the owner of the player. It creates the player on the    *)
(* first chunk of a stream and on a format change, forwards volume, mute    *)
(* and ducking to it, and mutes it while an announcement pauses the stream  *)

\* _update_player_volume, lines 1129-1131: ducking halves the volume
BridgeVolume(b) == IF b.is_ducked THEN b.volume \div 2 ELSE b.volume

\* _update_player_volume: the player after the bridge b applied its volume
UpdatePlayerVolume(b, a) ==
    IF b.player THEN SetVolumePlayer(a, BridgeVolume(b), b.muted) ELSE a

\* _stop_player: the stream is closed, the buffer cleared, the player's stop
\* scheduled and the reference dropped
StopPlayerOfBridge(b, a) ==
    [ b |-> [b EXCEPT !.player = FALSE, !.current_format = None],
      a |-> IF b.player THEN StopPlayer(ClearPlayer(a)) ELSE a ]

\* _create_player: a new AudioPlayer with the format set and the volume applied
CreatePlayer(b, fmt) ==
    LET b2 == [b EXCEPT !.player = TRUE, !.current_format = Some(fmt)]
    IN [ b |-> b2, a |-> UpdatePlayerVolume(b2, SetFormatPlayer(PlayerInit, fmt)) ]

\* the effect of a bridge operation that leaves the chunk queue alone
BridgeEffect(name, b2, a2) ==
    /\ br' = b2
    /\ ap' = a2
    /\ op' = [NoOp EXCEPT !.name = name]
    /\ UNCHANGED <<now, skew, conv_ok, dac_on, outdata, enq, emitted, anchor_at, pc>>

\* the effect of a bridge operation that stops the player
BridgeStopEffect(name, x) ==
    /\ br' = x.b
    /\ ap' = x.a
    /\ op' = [NoOp EXCEPT !.name = name]
    /\ enq' = IF br.player THEN <<>> ELSE enq
    /\ emitted' = IF br.player THEN <<>> ELSE emitted
    /\ UNCHANGED <<now, skew, conv_ok, dac_on, outdata, anchor_at, pc>>

\* SendspinBridge.set_volume
DoBridgeSetVolume(volume, muted) ==
    LET b2 == [br EXCEPT !.volume = Max(0, Min(100, volume)), !.muted = muted]
    IN BridgeEffect("bridge_set_volume", b2, UpdatePlayerVolume(b2, ap))

\* SendspinBridge.duck
DoDuck ==
    LET b2 == [br EXCEPT !.is_ducked = TRUE]
    IN BridgeEffect("duck", b2, UpdatePlayerVolume(b2, ap))

\* SendspinBridge.unduck
DoUnduck ==
    LET b2 == [br EXCEPT !.is_ducked = FALSE]
    IN BridgeEffect("unduck", b2, IF ~b2.paused THEN UpdatePlayerVolume(b2, ap) ELSE ap)

\* SendspinBridge.pause
DoPause ==
    IF br.stream_active /\ ~br.paused
    THEN BridgeEffect("pause", [br EXCEPT !.paused = TRUE],
                      IF br.player THEN SetVolumePlayer(ap, 0, TRUE) ELSE ap)
    ELSE BridgeEffect("pause", br, ap)

\* SendspinBridge.resume
DoResume ==
    IF br.stream_active /\ br.paused
    THEN BridgeEffect("resume", [br EXCEPT !.paused = FALSE],
                      UpdatePlayerVolume([br EXCEPT !.paused = FALSE], ap))
    ELSE BridgeEffect("resume", br, ap)

\* SendspinBridge.stop
DoBridgeStop ==
    IF br.stream_active
    THEN BridgeStopEffect("bridge_stop",
             [ b |-> [StopPlayerOfBridge(br, ap).b EXCEPT
                          !.stream_active = FALSE, !.paused = FALSE],
               a |-> StopPlayerOfBridge(br, ap).a ])
    ELSE BridgeEffect("bridge_stop", br, ap)

\* SendspinBridge._on_stream_start
DoStreamStart ==
    BridgeEffect("stream_start", [br EXCEPT !.stream_active = TRUE, !.paused = FALSE], ap)

\* SendspinBridge._on_stream_end
DoStreamEnd ==
    BridgeStopEffect("stream_end",
        [ b |-> [StopPlayerOfBridge(br, ap).b EXCEPT
                     !.stream_active = FALSE, !.paused = FALSE],
          a |-> StopPlayerOfBridge(br, ap).a ])

\* SendspinBridge._on_server_command with a VOLUME command
DoServerVolume(volume) ==
    LET b2 == [br EXCEPT !.volume = Max(0, Min(100, volume))]
    IN BridgeEffect("server_volume", b2, UpdatePlayerVolume(b2, ap))

\* SendspinBridge._on_server_command with a MUTE command
DoServerMute(mute) ==
    LET b2 == [br EXCEPT !.muted = mute]
    IN BridgeEffect("server_mute", b2, UpdatePlayerVolume(b2, ap))

\* _on_audio_chunk, lines 1386-1387: the bridge and the player that submit
\* is called on
PlayerForChunk(b, a, fmt) ==
    IF ~b.player \/ b.current_format # Some(fmt)
    THEN CreatePlayer(StopPlayerOfBridge(b, a).b, fmt)
    ELSE [ b |-> b, a |-> a ]

\* SendspinBridge._on_audio_chunk
DoAudioChunk(ts, payload, fmt) ==
    IF ~br.stream_active
    THEN BridgeEffect("audio_chunk", br, ap)
    ELSE /\ FilterRoom(PlayerForChunk(br, ap, fmt).a)
         /\ LET x == PlayerForChunk(br, ap, fmt)
                created == x.b # br
                r == Submit(x.a, ts, payload)
                wiped == created \/ r.cleared \/ r.reanchored
            IN /\ br' = x.b
               /\ ap' = r.a
               /\ op' = [NoOp EXCEPT !.name = "audio_chunk", !.ts = ts,
                                     !.payload = payload, !.added = r.added,
                                     !.cleared = r.cleared,
                                     !.reanchored = r.reanchored,
                                     !.raised = r.raised, !.measured = r.measured,
                                     !.filtered = r.filtered, !.valid = r.valid]
               /\ enq' = (IF wiped THEN <<>> ELSE enq) \o Flatten(r.added)
               /\ emitted' = IF wiped THEN <<>> ELSE emitted
               /\ anchor_at' = IF created THEN None
                               ELSE IF r.reanchored THEN Some(now) ELSE anchor_at
         /\ UNCHANGED <<now, skew, conv_ok, dac_on, outdata, pc>>

BridgeVolumes == { 50 }
MaxBridgeSteps == 6

NextBridge ==
    /\ Count(MaxBridgeSteps)
    /\ \/ DoStreamStart
       \/ DoStreamEnd
       \/ DoBridgeStop
       \/ \E ts \in Timestamps(DriftLeads, DriftGaps), p \in ReformatPayloads,
             fmt \in ReformatFormats : DoAudioChunk(ts, p, fmt)
       \/ DoPause
       \/ DoResume
       \/ DoDuck
       \/ DoUnduck
       \/ \E v \in BridgeVolumes, m \in BOOLEAN : DoBridgeSetVolume(v, m)
       \/ \E v \in BridgeVolumes : DoServerVolume(v)
       \/ \E m \in BOOLEAN : DoServerMute(m)
       \/ \E st \in Statuses : DoCallback(DriftBlockFrames, st)

SpecBridge == Init /\ [][NextBridge]_vars

----------------------------------------------------------------------------
(* Properties of the player *)

\* the read side of the player after a callback is the one before it
InputUntouched ==
    /\ ap'.queue = ap.queue
    /\ ap'.current_chunk = ap.current_chunk
    /\ ap'.current_chunk_offset = ap.current_chunk_offset
    /\ ap'.server_ts_cursor_us = ap.server_ts_cursor_us
    /\ ap'.server_ts_cursor_remainder = ap.server_ts_cursor_remainder

\* the callback wrote a whole buffer of zero bytes
SilentBuffer ==
    /\ Len(outdata') = op'.frames * FrameSize(ap)
    /\ AllZero(outdata')

\* the DAC start estimate the gate of this callback sees (the callback
\* refreshes it from the calibration ring before it gates)
GateDacStart == ap'.scheduled_start_dac_time_us

\* C1 as the specification words it: the gate clock is the DAC time whenever
\* a DAC start estimate exists
C1_BeforeStartAsWorded ==
    /\ op'.name = "callback"
    /\ ap.playback_state = "WAITING_FOR_START"
    /\ ~IsNone(ap.scheduled_start_loop_time_us)
    /\ IF ~IsNone(GateDacStart)
       THEN op'.dac < Val(GateDacStart)
       ELSE now < Val(ap.scheduled_start_loop_time_us)

\* C1 with the gate clock of the code: the DAC time when a DAC start estimate
\* exists and the device reports a positive DAC time, the loop time otherwise
C1_BeforeStart ==
    /\ op'.name = "callback"
    /\ ap.playback_state = "WAITING_FOR_START"
    /\ ~IsNone(ap.scheduled_start_loop_time_us)
    /\ IF ~IsNone(GateDacStart) /\ op'.dac > 0
       THEN op'.dac < Val(GateDacStart)
       ELSE now < Val(ap.scheduled_start_loop_time_us)

C1_Gated ==
    /\ SilentBuffer
    /\ InputUntouched
    /\ ap'.playback_state = "WAITING_FOR_START"

\* C1 (as stated): while WAITING_FOR_START with the gate clock (DAC time when
\* a DAC start estimate exists, otherwise loop time) strictly before the
\* scheduled start, a callback writes only zero bytes, consumes no input and
\* leaves the state WAITING_FOR_START.
C1_StartGateAsWorded == [][C1_BeforeStartAsWorded => C1_Gated]_vars

\* C1 (amended): the same, with the DAC clock used only when a DAC start
\* estimate exists and the callback's DAC time is positive, the loop clock
\* otherwise.
C1_StartGate == [][C1_BeforeStart => C1_Gated]_vars

\* a callback was held at the gate on the DAC clock with audio queued
C1_Witness ==
    /\ op.name = "callback" /\ op.path = "gate" /\ op.dac > 0
    /\ ~IsNone(ap.scheduled_start_dac_time_us)
    /\ op.dac < Val(ap.scheduled_start_dac_time_us)
    /\ ap.playback_state = "WAITING_FOR_START"
    /\ ap.queue # <<>>
    /\ Len(outdata) > 0 /\ AllZero(outdata)

\* C2: chunks play in submit order: every real byte the callbacks have
\* emitted since the last clear is a byte of the enqueued stream (gap silence
\* included), the emitted bytes appear in strictly increasing stream position,
\* and what is still buffered is the tail of the enqueued stream.
C2_SubmitOrder ==
    /\ \A i \in 1..Len(emitted) :
          /\ emitted[i][1] \in 1..Len(enq)
          /\ enq[emitted[i][1]] = emitted[i][2]
    /\ \A i \in 1..(Len(emitted) - 1) : emitted[i][1] < emitted[i + 1][1]
    /\ Len(BufferedData(ap)) <= Len(enq)
    /\ BufferedData(ap) = SubSeq(enq, Len(enq) - Len(BufferedData(ap)) + 1, Len(enq))

\* bytes of two different chunks have been played, the earlier chunk first
C2_Witness ==
    \E i, j \in 1..Len(emitted) :
        /\ i < j
        /\ emitted[i][2] = 3 /\ emitted[i][1] = 1
        /\ emitted[j][2] = 1 /\ emitted[j][1] = 5

\* C3: underflow recovery: a callback that observes underflow writes an
\* all-zero buffer, sets clear_requested and changes nothing else; a submit
\* that finds clear_requested set clears first, whatever its payload (a
\* rejected payload leaves exactly the cleared player), and a valid one (format
\* set, whole frames) re-anchors from its own chunk: state WAITING_FOR_START,
\* first_server_timestamp_us its timestamp, the queue exactly its chunk (no
\* chunk when the payload has no bytes).
C3_UnderflowRecovery ==
    [][ /\ (op'.name = "callback" /\ op'.status = "output_underflow")
           => /\ SilentBuffer
              /\ ap' = [ ap EXCEPT !.clear_requested = TRUE ]
        /\ (op'.name = "submit" /\ ap.clear_requested)
           => /\ op'.cleared
              /\ ~ap'.clear_requested
              /\ ~op'.valid => ap' = ClearPlayer(ap)
              /\ op'.valid =>
                    /\ ap'.playback_state = "WAITING_FOR_START"
                    /\ ap'.first_server_timestamp_us = Some(op'.ts)
                    /\ ap'.current_chunk = None
                    /\ ap'.queue = IF op'.payload = <<>> THEN <<>>
                                   ELSE <<Chunk(op'.ts, op'.payload)>> ]_vars

\* a valid submit has just recovered from an underflow: the queue holds its
\* chunk alone and the player waits for the start
C3_Witness ==
    /\ op.name = "submit" /\ op.cleared /\ op.valid
    /\ ap.playback_state = "WAITING_FOR_START"
    /\ ap.queue = <<Chunk(op.ts, op.payload)>>
    /\ ~ap.clear_requested

\* loop time of the last re-anchor, the loop clock's origin when there was none
LastReanchorAt == IF IsNone(anchor_at) THEN 0 ELSE Val(anchor_at)

\* this step is a submit processed while PLAYING that measures the sync error
MeasuringSubmit ==
    /\ op'.name = "submit"
    /\ ~ap.clear_requested
    /\ ap.playback_state = "PLAYING"
    /\ op'.measured

\* the filtered error of this submit is beyond the re-anchor threshold and
\* the cooldown has elapsed
LargeDivergence ==
    /\ MeasuringSubmit
    /\ RatGt(RatAbs(op'.filtered), REANCHOR_THRESHOLD_US)
    /\ now - LastReanchorAt > REANCHOR_COOLDOWN_US

\* no start is scheduled: the next accepted submit schedules it
AwaitingAnchor(a) ==
    a.playback_state = "INITIALIZING" /\ IsNone(a.scheduled_start_loop_time_us)

\* C4: re-anchor on large divergence: a submit processed while PLAYING whose
\* filtered sync error has magnitude above 500 000 us, with more than 5 s of
\* loop time since the last re-anchor, zeroes both correction intervals and
\* both countdowns and discards every chunk queued before it; the player then
\* has no scheduled start until the next accepted submit, which puts it in
\* WAITING_FOR_START with the start scheduled from its own timestamp.
C4_Reanchor ==
    [][ /\ LargeDivergence
           => /\ op'.reanchored
              /\ ap'.insert_every_n_frames = 0 /\ ap'.drop_every_n_frames = 0
              /\ ap'.frames_until_next_insert = 0 /\ ap'.frames_until_next_drop = 0
              /\ ap'.current_chunk = None
              /\ ap'.queue = op'.added
              /\ \A i \in 1..Len(ap'.queue) : ap'.queue[i].server_timestamp_us >= op'.ts
              /\ AwaitingAnchor(ap')
        /\ (AwaitingAnchor(ap) /\ ~(op'.name = "submit" /\ op'.valid))
           => AwaitingAnchor(ap')
        /\ (AwaitingAnchor(ap) /\ op'.name = "submit" /\ op'.valid)
           => /\ ap'.playback_state = "WAITING_FOR_START"
              /\ ap'.first_server_timestamp_us = Some(op'.ts)
              /\ ap'.scheduled_start_loop_time_us = Some(ComputeClientTime(op'.ts)) ]_vars

\* the first accepted submit after a re-anchor has rescheduled the start
C4_Witness ==
    /\ ~IsNone(anchor_at)
    /\ op.name = "submit" /\ op.valid /\ ~op.reanchored /\ ~op.cleared
    /\ ap.playback_state = "WAITING_FOR_START"
    /\ ap.first_server_timestamp_us = Some(op.ts)
    /\ Len(ap.queue) = 2

\* the sync error of this submit before filtering
InstantError == ap.last_known_playback_position_us - ap.server_ts_cursor_us

C6_Cooldown ==
    [][ (op'.name = "submit" /\ op'.reanchored /\ ~IsNone(anchor_at))
        => now - Val(anchor_at) >= REANCHOR_COOLDOWN_US ]_vars

\* C7: insert_every_n_frames and drop_every_n_frames are both non-negative
\* and at most one of them is nonzero, after any sequence of set_format,
\* submit, clear, set_volume and audio-callback operations.
C7_OnePlan ==
    /\ ap.insert_every_n_frames >= 0
    /\ ap.drop_every_n_frames >= 0
    /\ ap.insert_every_n_frames = 0 \/ ap.drop_every_n_frames = 0

\* a submit has just chosen an insert plan from a negative filtered error
C7_Witness ==
    /\ op.name = "submit" /\ op.measured /\ op.filtered.n < 0
    /\ ap.insert_every_n_frames > 0
    /\ ap.drop_every_n_frames = 0

\* C8: every audio callback on an open stream terminates and assigns every
\* one of the frames x frame_size bytes of the output buffer, on every path:
\* underflow, start gating, fast path (queue underrun included), slow path
\* and the exception path.
C8_BufferFilled ==
    op.name = "callback"
    => /\ op.path \in {"underflow", "gate", "fast", "slow", "exception"}
       /\ Len(op.raw) = op.frames * FrameSize(ap)
       /\ \A i \in 1..Len(op.raw) : op.raw[i] # Unwritten
       /\ Len(outdata) = op.frames * FrameSize(ap)
       /\ \A i \in 1..Len(outdata) : outdata[i] \in 0..255

\* a slow-path callback hit a correction event with a stale last frame of
\* the old format, took the exception path and still returned a full buffer
C8_Witness ==
    /\ op.name = "callback" /\ op.path = "exception"
    /\ ap.drop_every_n_frames > 0
    /\ Len(ap.last_output_frame) # FrameSize(ap)
    /\ Len(outdata) = op.frames * FrameSize(ap)

\* this step is an accepted submit that is not the first since the last clear
LaterSubmit ==
    /\ op'.name = "submit" /\ op'.valid
    /\ ~op'.cleared /\ ~op'.reanchored
    /\ ~IsNone(ap.expected_next_timestamp)

\* C9: gap handling: a submit that is not the first since the last clear and
\* whose timestamp ts is greater than expected_next_timestamp enqueues
\* exactly one silence chunk immediately before the payload chunk, stamped
\* with the old expected_next_timestamp and holding (ts - expected) x
\* sample_rate / 10^6 (whole) all-zero frames; the payload is enqueued
\* unmodified under ts, and expected_next_timestamp becomes ts plus the
\* payload duration.
C9_Gap ==
    [][ (LaterSubmit /\ op'.ts > Val(ap.expected_next_timestamp))
        => LET exp == Val(ap.expected_next_timestamp)
               sr == SampleRate(ap)
               fs == FrameSize(ap)
               gap_frames == ((op'.ts - exp) * sr) \div 1000000
               payload_us == ((Len(op'.payload) \div fs) * 1000000) \div sr
               silence == [server_timestamp_us |-> exp,
                           audio_data |-> [i \in 1..(gap_frames * fs) |-> 0]]
               chunk == [server_timestamp_us |-> op'.ts, audio_data |-> op'.payload]
           IN /\ ap'.queue = ap.queue \o <<silence>> \o
                              (IF op'.payload = <<>> THEN <<>> ELSE <<chunk>>)
              /\ ap'.expected_next_timestamp = Some(op'.ts + payload_us) ]_vars

\* a gap has just been filled: silence stamped with the old expected
\* timestamp, then the payload
C9_Witness ==
    /\ op.name = "submit" /\ ~op.cleared /\ ~op.reanchored
    /\ Len(op.added) = 2
    /\ op.added[1].server_timestamp_us < op.ts
    /\ Len(op.added[1].audio_data) = 4 /\ AllZero(op.added[1].audio_data)
    /\ op.added[2] = Chunk(op.ts, op.payload)
    /\ Len(ap.queue) >= 3

\* C10: overlap handling: for a submit whose timestamp ts is less than
\* expected_next_timestamp exp, with trim = floor((exp - ts) x sample_rate /
\* 10^6) x frame_size: if trim is smaller than the payload length the first
\* trim bytes are removed and the rest is enqueued with timestamp exp;
\* otherwise the chunk is dropped and the queue, queued_duration_us and
\* expected_next_timestamp are unchanged.
C10_Overlap ==
    [][ (LaterSubmit /\ op'.ts < Val(ap.expected_next_timestamp))
        => LET exp == Val(ap.expected_next_timestamp)
               sr == SampleRate(ap)
               fs == FrameSize(ap)
               trim == (((exp - op'.ts) * sr) \div 1000000) * fs
               n == Len(op'.payload)
           IN IF trim < n
              THEN ap'.queue = ap.queue \o
                       << [server_timestamp_us |-> exp,
                           audio_data |-> [i \in 1..(n - trim) |-> op'.payload[trim + i]]] >>
              ELSE /\ ap'.queue = ap.queue
                   /\ ap'.queued_duration_us = ap.queued_duration_us
                   /\ ap'.expected_next_timestamp = ap.expected_next_timestamp ]_vars

\* an overlapping chunk has just been trimmed: its tail sits in the queue
\* under the expected timestamp
C10_Witness ==
    /\ op.name = "submit" /\ op.valid /\ ~op.cleared /\ ~op.reanchored
    /\ op.payload = <<3, 4, 5, 6>>
    /\ Len(op.added) = 1
    /\ op.added[1].audio_data = <<5, 6>>
    /\ op.added[1].server_timestamp_us > op.ts
    /\ ap.queue[Len(ap.queue)] = op.added[1]

\* submit(t = 0, 100 ms of audio) has just returned, having queued its chunk
\* whole, and this step is submit(t = 40 ms, 100 ms of audio)
C11_Scenario ==
    /\ op.name = "submit" /\ op.ts = 0 /\ op.payload = HundredMs
    /\ op.added = <<Chunk(0, HundredMs)>>
    /\ ap.expected_next_timestamp = Some(100000)
    /\ op'.name = "submit" /\ op'.ts = 40000 /\ op'.payload = HundredMs

\* the chunk this submit put at the back of the queue is stamped 100 ms
C11_StoredAt100ms ==
    /\ Len(ap'.queue) = Len(ap.queue) + 1
    /\ ap'.queue[Len(ap'.queue)].server_timestamp_us = 100000

\* C11 (as stated): after submit(t=0, 100 ms of audio) followed by
\* submit(t=40 ms, 100 ms of audio), the second chunk is stored with timestamp
\* 100 ms and expected_next_timestamp is 240 ms.
C11_OverlapAsWorded ==
    [][ C11_Scenario
        => /\ C11_StoredAt100ms
           /\ ap'.expected_next_timestamp = Some(240000) ]_vars

\* C11 (amended): after submit(t=0, 100 ms of audio) followed by
\* submit(t=40 ms, 100 ms of audio), the second chunk is stored with timestamp
\* 100 ms holding its last 40 ms, and expected_next_timestamp is 140 ms.
C11_Overlap ==
    [][ C11_Scenario
        => /\ C11_StoredAt100ms
           /\ ap'.queue[Len(ap'.queue)].audio_data
                  = [ i \in 1..80 |-> HundredMs[120 + i] ]
           /\ ap'.expected_next_timestamp = Some(140000) ]_vars

\* the two submits of the scenario have been made: the queue holds the first
\* chunk whole and the last 40 ms of the second under 100 ms
C11_Witness ==
    /\ op.name = "submit" /\ op.ts = 40000 /\ op.payload = HundredMs
    /\ ap.queue = << Chunk(0, HundredMs), Chunk(100000, SubSeq(HundredMs, 121, 200)) >>
    /\ ap.expected_next_timestamp = Some(140000)

\* this step is a submit, made with no deferred clear pending, that finds no
\* format set or a payload that is not a whole number of frames
C12_BadSubmit ==
    /\ op'.name = "submit"
    /\ ~ap.clear_requested
    /\ \/ IsNone(ap.format)
       \/ Len(op'.payload) % FrameSize(ap) # 0

\* C12: a submit made when no format is set, or whose payload length is not a
\* multiple of frame_size, is rejected: with clear_requested false, it leaves
\* the queue, queued_duration_us, expected_next_timestamp, playback state,
\* scheduled start, correction plan and stream-started flag (indeed every
\* field of the player) unchanged.
C12_Rejected ==
    [][ C12_BadSubmit
        => /\ ap'.queue = ap.queue
           /\ ap'.queued_duration_us = ap.queued_duration_us
           /\ ap'.expected_next_timestamp = ap.expected_next_timestamp
           /\ ap'.playback_state = ap.playback_state
           /\ ap'.scheduled_start_loop_time_us = ap.scheduled_start_loop_time_us
           /\ ap'.scheduled_start_dac_time_us = ap.scheduled_start_dac_time_us
           /\ ap'.insert_every_n_frames = ap.insert_every_n_frames
           /\ ap'.drop_every_n_frames = ap.drop_every_n_frames
           /\ ap'.frames_until_next_insert = ap.frames_until_next_insert
           /\ ap'.frames_until_next_drop = ap.frames_until_next_drop
           /\ ap'.stream_started = ap.stream_started
           /\ ap' = ap
           /\ op'.added = <<>> ]_vars

\* a payload of one frame and a half has just been rejected by a player that
\* holds queued audio and waits for its start
C12_Witness ==
    /\ op.name = "submit" /\ ~op.valid /\ ~op.cleared
    /\ op.payload = <<7, 8, 9>>
    /\ ~IsNone(ap.format)
    /\ ap.playback_state = "WAITING_FOR_START"
    /\ ap.queue # <<>>
    /\ ap.stream_started

\* C13: a submit with a zero-length payload is dropped and leaves the stream
\* unaffected: with clear_requested false, the playback state, scheduled
\* start, first_server_timestamp_us, expected_next_timestamp, queue contents
\* and stream-started flag are the same after the call as before it.
C13_ZeroLengthDropped ==
    [][ (op'.name = "submit" /\ op'.payload = <<>> /\ ~ap.clear_requested)
        => /\ ap'.playback_state = ap.playback_state
           /\ ap'.scheduled_start_loop_time_us = ap.scheduled_start_loop_time_us
           /\ ap'.scheduled_start_dac_time_us = ap.scheduled_start_dac_time_us
           /\ ap'.first_server_timestamp_us = ap.first_server_timestamp_us
           /\ ap'.expected_next_timestamp = ap.expected_next_timestamp
           /\ ap'.queue = ap.queue
           /\ ap'.stream_started = ap.stream_started ]_vars

\* C14: after stop() has been called, every further submit is a no-op: it
\* enqueues nothing, changes neither the playback state nor the scheduled
\* start nor expected_next_timestamp, and never starts a stream.
C14_StoppedSubmitNoOp ==
    [][ (ap.closed /\ op'.name = "submit")
        => /\ op'.added = <<>>
           /\ ap'.queue = ap.queue
           /\ ap'.playback_state = ap.playback_state
           /\ ap'.scheduled_start_loop_time_us = ap.scheduled_start_loop_time_us
           /\ ap'.scheduled_start_dac_time_us = ap.scheduled_start_dac_time_us
           /\ ap'.expected_next_timestamp = ap.expected_next_timestamp
           /\ ap'.stream_started = ap.stream_started ]_vars

\* what clear() leaves alone according to the claim: format, device binding
\* (not a field of the model), stream handle, volume and mute
C15_KeptAsWorded ==
    /\ ap'.format = ap.format
    /\ ap'.stream = ap.stream
    /\ ap'.volume = ap.volume
    /\ ap'.muted = ap.muted

\* the fields clear() resets, at their constructor values
C15_Reset ==
    /\ ap'.playback_state = "INITIALIZING"
    /\ ap'.queue = <<>>
    /\ ap'.current_chunk = <<>> /\ ap'.current_chunk_offset = 0
    /\ ap'.expected_next_timestamp = <<>>
    /\ ap'.scheduled_start_loop_time_us = <<>>
    /\ ap'.scheduled_start_dac_time_us = <<>>
    /\ ap'.first_server_timestamp_us = <<>>
    /\ ap'.server_ts_cursor_us = 0 /\ ap'.server_ts_cursor_remainder = 0
    /\ ap'.insert_every_n_frames = 0 /\ ap'.drop_every_n_frames = 0
    /\ ap'.frames_until_next_insert = 0 /\ ap'.frames_until_next_drop = 0
    /\ ~ap'.early_start_suspect /\ ~ap'.has_reanchored
    /\ ~ap'.sync_error_filter.initialized
    /\ ap'.sync_error_filter.value = [n |-> 0, d |-> 1]
    /\ ap'.sync_error_filtered_us = [n |-> 0, d |-> 1]
    /\ ap'.dac_loop_calibrations = <<>>
    /\ ap'.last_known_playback_position_us = 0
    /\ ap'.last_dac_calibration_time_us = 0
    /\ ap'.last_output_frame = <<>>
    /\ ap'.last_reanchor_loop_time_us = 0
    /\ ap'.last_sync_error_log_us = 0
    /\ ap'.frames_inserted_since_log = 0 /\ ap'.frames_dropped_since_log = 0
    /\ ap'.queued_duration_us = 0
    /\ ~ap'.clear_requested
    /\ ~ap'.stream_started

\* C15 (as stated): clear() stops but does not close the stream and leaves
\* the format, the device binding, the stream handle, volume and mute
\* unchanged; every other field returns to its constructor value.
C15_ClearAsWorded ==
    [][ op'.name = "clear"
        => /\ C15_KeptAsWorded
           /\ C15_Reset
           /\ ap'.closed = FALSE ]_vars

\* C15 (amended): clear() stops but does not close the stream and leaves the
\* format, the device binding, the stream handle, the closed flag, volume and
\* mute unchanged; every other field returns to its constructor value.
C15_Clear ==
    [][ op'.name = "clear"
        => /\ C15_KeptAsWorded
           /\ C15_Reset
           /\ ap'.closed = ap.closed ]_vars

\* clear() has just run right after an audio callback on a muted player: the
\* stream is still open but stopped, the mute is kept, the rest is reset
C15_Witness ==
    /\ op.name = "clear" /\ op.prev = "callback"
    /\ ~IsNone(ap.format) /\ ap.stream = "open" /\ ~ap.stream_started
    /\ ap.muted
    /\ ap.playback_state = "INITIALIZING" /\ ap.queue = <<>>

\* C16: clear is idempotent: from any reachable player state, the state after
\* clear(); clear() is identical to the state after a single clear().
C16_ClearIdempotent ==
    [][ /\ ClearPlayer(ClearPlayer(ap)) = ClearPlayer(ap)
        /\ ClearPlayer(ClearPlayer(ap')) = ClearPlayer(ap')
        /\ (op.name = "clear" /\ op'.name = "clear") => ap' = ap ]_vars

\* clear() has just run for the second time in a row on a player with a
\* format and an open stream
C16_Witness ==
    /\ op.name = "clear" /\ op.prev = "clear"
    /\ ~IsNone(ap.format) /\ ap.stream = "open"
    /\ ap = ClearPlayer(ap)

\* C17: set_format on a player that has already accepted chunks closes the
\* existing stream and resets the first-chunk-related fields: after it
\* returns, scheduled_start_loop_time_us and first_server_timestamp_us are
\* None, the state is INITIALIZING, stream_started is false, and no chunk
\* submitted under the previous format remains to be played under the new one.
C17_SetFormatResets ==
    [][ (op'.name = "set_format" /\ ~IsNone(ap.expected_next_timestamp))
        => /\ ap'.stream = "open"
           /\ ap'.scheduled_start_loop_time_us = <<>>
           /\ ap'.first_server_timestamp_us = <<>>
           /\ ap'.playback_state = "INITIALIZING"
           /\ ~ap'.stream_started
           /\ ap'.queue = <<>>
           /\ ap'.current_chunk = <<>> ]_vars

\* time from this callback to the scheduled start on the clock the gate uses
C18_Ahead ==
    IF ~IsNone(GateDacStart) /\ op'.dac > 0
    THEN Val(GateDacStart) - op'.dac
    ELSE Val(ap.scheduled_start_loop_time_us) - now

\* this step is the first audio callback of a stream, with audio queued and
\* the scheduled start still ahead
C18_FirstCallback ==
    /\ op'.name = "callback" /\ op'.status = "none"
    /\ ap.playback_state = "WAITING_FOR_START"
    /\ ap.dac_loop_calibrations = <<>>
    /\ ~IsNone(ap.scheduled_start_loop_time_us)
    /\ ap.queue # <<>>
    /\ C18_Ahead > 0

\* the buffer of this callback, before volume scaling, begins with n silent
\* frames; if it has room for more, the next frame is the first queued frame
C18_SilenceThenAudio(n) ==
    /\ \A i \in 1..(Min(n, op'.frames) * FrameSize(ap)) : op'.raw[i] = 0
    /\ n < op'.frames
         => \A k \in 1..FrameSize(ap) :
                op'.raw[n * FrameSize(ap) + k] = Head(ap.queue).audio_data[k]

\* C18: if at the first audio callback the scheduled start lies D us in the
\* future, the device output consists of exactly D x sample_rate / 10^6
\* silent frames (250 ms x sample_rate when D = 250 ms) immediately followed
\* by the first frame of the first submitted chunk.
C18_SilenceUntilStart ==
    [][ C18_FirstCallback
        => C18_SilenceThenAudio((C18_Ahead * SampleRate(ap)) \div 1000000) ]_vars

\* C19: for any queue content and playback state, if muted is true or volume
\* is 0 when an audio callback runs, every byte it leaves in the output buffer
\* is zero; if volume is 100 and muted is false, the buffer is exactly the
\* unscaled bytes produced by the gate / fast path / slow path.
C19_MuteAndFullVolume ==
    [][ op'.name = "callback"
        => /\ (ap.muted \/ ap.volume = 0)
                => /\ Len(outdata') = op'.frames * FrameSize(ap)
                   /\ \A i \in 1..Len(outdata') : outdata'[i] = 0
           /\ (ap.volume = 100 /\ ~ap.muted)
                => outdata' = op'.raw ]_vars

\* a callback on a muted player at volume 100 has read audio from the queue
\* and left a buffer of zeros
C19_Witness ==
    /\ op.name = "callback" /\ op.path = "fast"
    /\ ap.muted /\ ap.volume = 100
    /\ op.raw[1] = 12 /\ op.raw[3] = 8
    /\ Len(outdata) = Len(op.raw) /\ AllZero(outdata)

\* the k-th int16 sample of a buffer
C20_Sample(buf, k) == ToInt16(buf[2 * k - 1], buf[2 * k])

\* round(x / 8), halves to the even neighbour, clipped to the int16 range
C20_RoundEighth(x) ==
    LET q == x \div 8
        r == x % 8
        v == IF r < 4 THEN q
             ELSE IF r > 4 THEN q + 1
             ELSE IF q % 2 = 0 THEN q ELSE q + 1
    IN Max(0 - 32768, Min(32767, v))

\* x / 8 with the fraction cut off (rounding toward zero)
C20_TruncEighth(x) == IF x < 0 THEN 0 - ((0 - x) \div 8) ELSE x \div 8

\* this step is a callback that scales its buffer at volume 50, not muted
C20_HalfVolume ==
    /\ op'.name = "callback" /\ op'.status = "none"
    /\ ap.volume = 50 /\ ~ap.muted

\* C20 (as stated): with volume = 50 and muted = false, for every int16 input
\* sample the output sample equals round(input x 0.125), clipped to the int16
\* range.
C20_CubicRoundAsWorded ==
    [][ C20_HalfVolume
        => /\ Len(outdata') = Len(op'.raw)
           /\ \A k \in 1..(Len(op'.raw) \div 2) :
                 C20_Sample(outdata', k) = C20_RoundEighth(C20_Sample(op'.raw, k)) ]_vars

\* C20 (amended): with volume = 50 and muted = false, for every int16 input
\* sample the output sample equals input x 0.125 with the fraction cut off
\* (rounded toward zero); the result is always within the int16 range.
C20_CubicTrunc ==
    [][ C20_HalfVolume
        => /\ Len(outdata') = Len(op'.raw)
           /\ \A k \in 1..(Len(op'.raw) \div 2) :
                 /\ C20_Sample(outdata', k) = C20_TruncEighth(C20_Sample(op'.raw, k))
                 /\ C20_Sample(outdata', k) \in (0 - 32768)..32767 ]_vars

\* a callback at volume 50 has scaled the sample -7 to 0
C20_Witness ==
    /\ op.name = "callback" /\ op.path = "fast"
    /\ ap.volume = 50 /\ ~ap.muted
    /\ C20_Sample(op.raw, 1) = 0 - 7
    /\ C20_Sample(outdata, 1) = 0

\* a buffer scaled by the cube of volume / 100, each int16 sample cut toward
\* zero; silence when muted or at volume 0, the buffer itself at volume 100
C21_Scaled(buf, volume, muted) ==
    IF muted \/ volume = 0 THEN [ i \in 1..Len(buf) |-> 0 ]
    ELSE IF volume = 100 THEN buf
    ELSE [ i \in 1..Len(buf) |->
             LET x == ToInt16(buf[i - ((i - 1) % 2)], buf[i - ((i - 1) % 2) + 1])
                 m == (Abs(x) * ((volume * volume * volume) \div 1000)) \div 1000
                 y == IF x < 0 THEN 0 - m ELSE m
                 u == IF y < 0 THEN y + 65536 ELSE y
             IN IF i % 2 = 1 THEN u % 256 ELSE u \div 256 ]

\* C21: set_volume(v, muted) stores min(100, max(0, v)) and the mute flag; the
\* stored volume is within [0, 100] in every reachable state (and changes
\* only by set_volume), and the first audio callback that starts after
\* set_volume returns scales its output with the new values, which are the
\* values stored when it starts.
C21_SetVolume ==
    [][ /\ ap.volume \in 0..100 /\ ap'.volume \in 0..100
        /\ op'.name = "set_volume"
             => /\ ap'.volume = (IF op'.volume > 100 THEN 100
                                 ELSE IF op'.volume < 0 THEN 0 ELSE op'.volume)
                /\ ap'.muted = op'.muted
        /\ op'.name # "set_volume"
             => /\ ap'.volume = ap.volume
                /\ ap'.muted = ap.muted
        /\ op'.name = "callback"
             => outdata' = C21_Scaled(op'.raw, ap.volume, ap.muted) ]_vars

\* a callback has scaled queue audio at the volume 50 stored by set_volume:
\* the sample 32767 came out as 4095
C21_Witness ==
    /\ op.name = "callback" /\ op.path = "fast"
    /\ ap.volume = 50 /\ ~ap.muted
    /\ op.raw[1] = 255 /\ op.raw[2] = 127
    /\ outdata[1] = 255 /\ outdata[2] = 15

\* set_volume has just stored 100 for a request of 130
C21_Clamped ==
    /\ op.name = "set_volume" /\ op.volume = 130
    /\ ap.volume = 100 /\ ap.muted = op.muted

\* a submit of a well-formed, non-empty chunk that finds no start scheduled
\* while the serverToClient conversion raises
C22_FirstChunkUnderFault ==
    /\ op'.name = "submit" /\ op'.valid /\ op'.payload # <<>>
    /\ ~conv_ok
    /\ ~ap.clear_requested
    /\ IsNone(ap.scheduled_start_loop_time_us)

\* C22: if the serverToClient conversion raises during a submit that schedules
\* the first chunk (scheduled start not yet set), in any reachable state
\* including one where calibration pairs already exist, the exception does not
\* escape submit: scheduled_start_loop_time_us is set to the current loop time,
\* the state becomes WAITING_FOR_START and the chunk is enqueued.
C22_FallbackStart ==
    [][ C22_FirstChunkUnderFault
          => /\ ~op'.raised
             /\ ap'.scheduled_start_loop_time_us = Some(now)
             /\ ap'.playback_state = "WAITING_FOR_START"
             /\ op'.added = <<Chunk(op'.ts, op'.payload)>>
             /\ ap'.queue = QueuePut(ap.queue, Chunk(op'.ts, op'.payload)) ]_vars

\* the same submit in a state without calibration pairs: there the fallback works
C22_FallbackUncalibrated ==
    [][ C22_FirstChunkUnderFault /\ ap.last_dac_calibration_time_us = 0
          => /\ ~op'.raised
             /\ ap'.scheduled_start_loop_time_us = Some(now)
             /\ ap'.playback_state = "WAITING_FOR_START"
             /\ ap'.queue = QueuePut(ap.queue, Chunk(op'.ts, op'.payload)) ]_vars

\* the duration of the bytes still buffered: unread part of the current chunk
\* plus all queued chunks
C23_BufferedUs ==
    DurationUs(Len(BufferedData(ap)) \div FrameSize(ap), SampleRate(ap))

C24_From ==
    IF op'.name = "submit" /\ op'.cleared THEN "INITIALIZING" ELSE ap.playback_state

\* the gate clock of this callback (DAC time when a DAC start estimate exists
\* and the DAC time is positive, loop time otherwise) has reached the start
C24_StartReached ==
    IF ~IsNone(GateDacStart) /\ op'.dac > 0
    THEN op'.dac >= Val(GateDacStart)
    ELSE /\ ~IsNone(ap.scheduled_start_loop_time_us)
         /\ now >= Val(ap.scheduled_start_loop_time_us)

\* C24: the playback state changes only by these transitions: INITIALIZING to
\* WAITING_FOR_START (by a submit that schedules the start), WAITING_FOR_START
\* to PLAYING (by an audio callback whose gate clock has reached the scheduled
\* start), and any state to INITIALIZING (by clear or re-anchor, or by the
\* clear a submit runs for a deferred underflow); it never goes from
\* INITIALIZING directly to PLAYING nor from PLAYING to WAITING_FOR_START.
C24_Transitions ==
    [][ /\ C24_From # ap.playback_state
          => op'.name = "submit" /\ op'.cleared
        /\ C24_From # ap'.playback_state
          => \/ /\ C24_From = "INITIALIZING"
                /\ ap'.playback_state = "WAITING_FOR_START"
                /\ op'.name = "submit"
                /\ IsNone(ap.scheduled_start_loop_time_us) \/ op'.cleared
                /\ ~IsNone(ap'.scheduled_start_loop_time_us)
             \/ /\ C24_From = "WAITING_FOR_START"
                /\ ap'.playback_state = "PLAYING"
                /\ op'.name = "callback"
                /\ C24_StartReached
             \/ /\ ap'.playback_state = "INITIALIZING"
                /\ \/ op'.name = "clear"
                   \/ op'.name = "submit" /\ op'.reanchored ]_vars

\* a re-anchor has taken a playing stream back to INITIALIZING: the state has
\* gone through all three transitions
C24_Witness ==
    /\ op.name = "submit" /\ op.reanchored
    /\ ap.playback_state = "INITIALIZING"
    /\ emitted = <<>> /\ enq # <<>>

\* C25: after a submit processed while PLAYING (playback position and cursor
\* both positive) that does not re-anchor, with e the filtered sync error: if
\* |e| <= 2000 us both intervals are 0; if e > 2000 us then
\* drop_every_n_frames > 0 and insert_every_n_frames = 0; if e < -2000 us then
\* insert_every_n_frames > 0 and drop_every_n_frames = 0.
C25_PlanBySign ==
    [][ (op'.name = "submit" /\ op'.measured /\ ~op'.reanchored)
          => /\ RatLe(RatAbs(op'.filtered), CORRECTION_DEADBAND_US)
                  => /\ ap'.insert_every_n_frames = 0
                     /\ ap'.drop_every_n_frames = 0
             /\ (op'.filtered.n > 0 /\ RatGt(op'.filtered, CORRECTION_DEADBAND_US))
                  => /\ ap'.drop_every_n_frames > 0
                     /\ ap'.insert_every_n_frames = 0
             /\ (op'.filtered.n < 0 /\ RatGt(RatAbs(op'.filtered), CORRECTION_DEADBAND_US))
                  => /\ ap'.insert_every_n_frames > 0
                     /\ ap'.drop_every_n_frames = 0 ]_vars

\* a submit has planned drops from a filtered error between the deadband and
\* the re-anchor threshold
C25_Witness ==
    /\ op.name = "submit" /\ op.measured /\ ~op.reanchored
    /\ op.filtered.n > 0
    /\ RatGt(op.filtered, CORRECTION_DEADBAND_US)
    /\ RatLe(op.filtered, REANCHOR_THRESHOLD_US)
    /\ ap.drop_every_n_frames > 0
    /\ ap.insert_every_n_frames = 0

\* a submit sets a correction interval from a filtered error outside the deadband
C26_Set ==
    /\ op'.name = "submit" /\ op'.measured /\ ~op'.reanchored
    /\ RatGt(RatAbs(op'.filtered), CORRECTION_DEADBAND_US)

\* the correction interval of a player: the one of the two that is not zero
C26_IntervalOf(a) == a.drop_every_n_frames + a.insert_every_n_frames

\* k = max(1, floor(sample_rate / min(|e| x sample_rate / (2 x 10^6),
\* 0.04 x sample_rate))) for |e| = n / d, with the sample rate cancelled:
\* below the cap k <= 2 x 10^6 x d / n < k + 1, at the cap k = 1 / 0.04
C26_IsInterval(k, e) ==
    IF e.n * 100 <= 4 * 2 * MICROSECONDS_PER_SECOND * e.d
    THEN /\ k >= 1
         /\ k * e.n <= 2 * MICROSECONDS_PER_SECOND * e.d
         /\ 2 * MICROSECONDS_PER_SECOND * e.d < (k + 1) * e.n
    ELSE k * 4 = 100

C26_AtCap ==
    /\ op.name = "submit" /\ op.measured /\ ~op.reanchored
    /\ op.filtered = [n |-> 80001, d |-> 1]
    /\ C26_IntervalOf(ap) = 25

\* input frames consumed by this step: what was buffered before it, plus what
\* it enqueued, less what is buffered after it
C27_Consumed ==
    (Len(BufferedData(ap)) + Len(Flatten(op'.added)) - Len(BufferedData(ap')))
        \div FrameSize(ap)

\* the chunk the next read loads or reads from
C27_NextChunk ==
    IF ~IsNone(ap.current_chunk) THEN Val(ap.current_chunk) ELSE Head(ap.queue)

\* a step between clears, under one format
C27_BetweenClears ==
    /\ ~IsNone(ap.format) /\ ap'.format = ap.format
    /\ op'.name # "clear"
    /\ ~(op'.name = "submit" /\ (op'.cleared \/ op'.reanchored))

\* C27: between clears the server-timeline cursor never decreases, and it
\* advances exactly with the frames consumed: if it was initialised from a
\* chunk timestamp T0 and F input frames have since been consumed (by bulk
\* read, single-frame read or start-gate skip), then server_ts_cursor_us x
\* sample_rate + remainder = T0 x sample_rate + F x 10^6 with 0 <= remainder <
\* sample_rate. Stated step by step: a step that initialises the cursor leaves
\* it at T0 plus the frames it consumed, every other step adds the frames it
\* consumed.
C27_CursorAdvance ==
    [][ C27_BetweenClears
          => /\ ap'.server_ts_cursor_us >= ap.server_ts_cursor_us
             /\ ap'.server_ts_cursor_remainder >= 0
             /\ ap'.server_ts_cursor_remainder < SampleRate(ap)
             /\ IF ap.server_ts_cursor_us = 0 /\ ap'.server_ts_cursor_us # 0
                THEN (ap'.server_ts_cursor_us - C27_NextChunk.server_timestamp_us)
                         * SampleRate(ap) + ap'.server_ts_cursor_remainder
                       = C27_Consumed * MICROSECONDS_PER_SECOND
                ELSE (ap'.server_ts_cursor_us - ap.server_ts_cursor_us)
                         * SampleRate(ap)
                       + ap'.server_ts_cursor_remainder - ap.server_ts_cursor_remainder
                       = C27_Consumed * MICROSECONDS_PER_SECOND ]_vars

\* a slow-path callback has read a segment in bulk and two single frames at a
\* drop event, with audio left over, and the cursor carries a remainder
C27_Witness ==
    /\ op.name = "callback" /\ op.path = "slow"
    /\ ap.frames_dropped_since_log > 0
    /\ BufferedData(ap) # <<>>
    /\ ap.server_ts_cursor_us > 0
    /\ ap.server_ts_cursor_remainder > 0

\* the sum of floor(frames x 10^6 / sample_rate) over the chunks, frames
\* being the whole frames of a chunk under the format set
RECURSIVE C28_Durations(_)
C28_Durations(chunks) ==
    IF chunks = <<>> THEN 0
    ELSE DurationUs(Len(Head(chunks).audio_data) \div FrameSize(ap), SampleRate(ap))
         + C28_Durations(Tail(chunks))

\* the current chunk when one is loaded and not yet fully consumed
C28_Current ==
    IF ~IsNone(ap.current_chunk)
       /\ ap.current_chunk_offset < Len(Val(ap.current_chunk).audio_data)
    THEN <<Val(ap.current_chunk)>>
    ELSE <<>>

\* C28: whenever neither a submit nor an audio callback is in progress,
\* queued_duration_us is non-negative and equals the sum of the durations
\* (floor(frames x 10^6 / sample_rate) per chunk) of all chunks in the queue
\* plus the current chunk if one is loaded and not yet fully consumed.
C28_QueuedDuration ==
    /\ ap.queued_duration_us >= 0
    /\ ~IsNone(ap.format)
         => ap.queued_duration_us = C28_Durations(C28_Current \o ap.queue)

\* a callback that takes the fast path from the state PLAYING
C29_FastCallback ==
    /\ op'.name = "callback" /\ op'.status = "none"
    /\ ~IsNone(ap.format)
    /\ ap.playback_state = "PLAYING"
    /\ ap.insert_every_n_frames = 0 /\ ap.drop_every_n_frames = 0

\* min(n, frames buffered) for the n frames this callback asks for
C29_Read == Min(op'.frames, Len(BufferedData(ap)) \div FrameSize(ap))

\* C29: fast path: in state PLAYING with both correction intervals zero, a
\* callback for n frames consumes min(n, frames buffered) input frames, writes
\* them in order at the start of the buffer, zero-fills the rest, and advances
\* the server cursor by exactly the number of frames actually read (not by the
\* zero-filled frames); when at least n frames are buffered the whole buffer
\* is queue data.
C29_FastPath ==
    [][ C29_FastCallback
          => /\ op'.path = "fast"
             /\ BufferedData(ap') = Drop(BufferedData(ap), C29_Read * FrameSize(ap))
             /\ op'.raw = SubSeq(BufferedData(ap), 1, C29_Read * FrameSize(ap))
                            \o Zeros((op'.frames - C29_Read) * FrameSize(ap))
             /\ (IF ap.server_ts_cursor_us = 0 /\ ap'.server_ts_cursor_us # 0
                 THEN ap'.server_ts_cursor_us - C27_NextChunk.server_timestamp_us
                 ELSE ap'.server_ts_cursor_us - ap.server_ts_cursor_us) * SampleRate(ap)
                  + ap'.server_ts_cursor_remainder - ap.server_ts_cursor_remainder
                  = C29_Read * MICROSECONDS_PER_SECOND
             /\ Len(BufferedData(ap)) >= op'.frames * FrameSize(ap)
                  => op'.raw = SubSeq(BufferedData(ap), 1, op'.frames * FrameSize(ap)) ]_vars

\* a fast-path callback of a playing stream found fewer frames than it asked
\* for: the frames it read are followed by zero fill
C29_Witness ==
    /\ op.name = "callback" /\ op.path = "fast"
    /\ ap.playback_state = "PLAYING"
    /\ Len(emitted) > Len(op.emit)
    /\ Len(op.emit) > 0 /\ Len(op.emit) < Len(op.raw)
    /\ AllZero(Drop(op.raw, Len(op.emit)))
    /\ BufferedData(ap) = <<>>

\* a fast-path callback of a playing stream filled its whole buffer from two
\* chunks and left audio buffered
C29_Full ==
    /\ op.name = "callback" /\ op.path = "fast"
    /\ ap.playback_state = "PLAYING"
    /\ Len(emitted) > Len(op.emit)
    /\ Len(op.emit) = Len(op.raw)
    /\ BufferedData(ap) # <<>>

\* the insert countdown a slow-path callback starts with
C30_Countdown ==
    IF ap.frames_until_next_insert <= 0
    THEN ap.insert_every_n_frames
    ELSE ap.frames_until_next_insert

\* a callback of a playing stream under an insert plan whose buffer holds
\* exactly one insert event: a segment of C30_Countdown frames, the event, and
\* a segment of the frames that remain
C30_InsertCallback ==
    /\ op'.name = "callback" /\ op'.status = "none"
    /\ ~IsNone(ap.format)
    /\ ap.playback_state = "PLAYING"
    /\ ap.insert_every_n_frames > 0 /\ ap.drop_every_n_frames = 0
    /\ C30_Countdown < op'.frames
    /\ C30_Countdown + 1 + ap.insert_every_n_frames >= op'.frames

\* the bytes a read of `frames` frames takes from data
C30_Real(data, frames) == Min(frames * FrameSize(ap), Len(data))

\* the output of that read: the bytes taken, then zero fill
C30_Segment(data, frames) ==
    SubSeq(data, 1, C30_Real(data, frames))
        \o Zeros(frames * FrameSize(ap) - C30_Real(data, frames))

\* the last real frame emitted when the event comes: the last frame the
\* segment before it read, else the last frame read since the last clear,
\* else (nothing read yet) a frame of zeros
C30_LastRealFrame ==
    IF C30_Real(BufferedData(ap), C30_Countdown) >= FrameSize(ap)
    THEN SubSeq(BufferedData(ap),
                C30_Real(BufferedData(ap), C30_Countdown) - FrameSize(ap) + 1,
                C30_Real(BufferedData(ap), C30_Countdown))
    ELSE IF emitted # <<>>
    THEN [ i \in 1..FrameSize(ap) |-> emitted[Len(emitted) - FrameSize(ap) + i][2] ]
    ELSE Zeros(FrameSize(ap))

\* what is buffered when the event comes
C30_AtEvent == Drop(BufferedData(ap), C30_Real(BufferedData(ap), C30_Countdown))

\* C30: at an insert event in the slow path, the callback writes one extra
\* copy of the last emitted real frame, consumes no input (current-chunk
\* offset, queue and server cursor unchanged by the event) and resets the
\* insert countdown to insert_every_n_frames. Stated on the callback: its
\* buffer is the segment before the event, the copy, and the segment after
\* it; the input and the cursor move by the frames of the two segments only;
\* the countdown on return is insert_every_n_frames less the frames written
\* after the event.
C30_InsertEvent ==
    [][ C30_InsertCallback
          => /\ op'.path = "slow"
             /\ op'.raw = C30_Segment(BufferedData(ap), C30_Countdown)
                            \o C30_LastRealFrame
                            \o C30_Segment(C30_AtEvent, op'.frames - C30_Countdown - 1)
             /\ BufferedData(ap')
                  = Drop(C30_AtEvent, C30_Real(C30_AtEvent, op'.frames - C30_Countdown - 1))
             /\ (ap'.server_ts_cursor_us - ap.server_ts_cursor_us) * SampleRate(ap)
                  + ap'.server_ts_cursor_remainder - ap.server_ts_cursor_remainder
                  = ((Len(BufferedData(ap)) - Len(BufferedData(ap'))) \div FrameSize(ap))
                      * MICROSECONDS_PER_SECOND
             /\ ap'.frames_until_next_insert
                  = ap.insert_every_n_frames - (op'.frames - C30_Countdown - 1)
             /\ ap'.frames_inserted_since_log = ap.frames_inserted_since_log + 1 ]_vars

\* a slow-path callback has repeated the frame before the event, a frame of
\* audio, and left the audio behind it buffered
C30_Witness ==
    /\ op.name = "callback" /\ op.path = "slow"
    /\ ap.insert_every_n_frames > 0
    /\ ap.insert_every_n_frames < op.frames
    /\ ap.frames_inserted_since_log = 1
    /\ Len(op.emit) >= ap.insert_every_n_frames * FrameSize(ap)
    /\ SubSeq(op.raw, ap.insert_every_n_frames * FrameSize(ap) + 1,
              (ap.insert_every_n_frames + 1) * FrameSize(ap))
         = SubSeq(op.raw, (ap.insert_every_n_frames - 1) * FrameSize(ap) + 1,
                  ap.insert_every_n_frames * FrameSize(ap))
    /\ ~AllZero(SubSeq(op.raw, ap.insert_every_n_frames * FrameSize(ap) + 1,
                       (ap.insert_every_n_frames + 1) * FrameSize(ap)))
    /\ BufferedData(ap) # <<>>

\* the drop countdown a slow-path callback starts with
C31_Countdown ==
    IF ap.frames_until_next_drop <= 0
    THEN ap.drop_every_n_frames
    ELSE ap.frames_until_next_drop

\* a callback of a playing stream under a drop plan whose buffer holds exactly
\* one drop event, with the segment before the event and the two frames of
\* the event buffered
C31_DropCallback ==
    /\ op'.name = "callback" /\ op'.status = "none"
    /\ ~IsNone(ap.format)
    /\ ap.playback_state = "PLAYING"
    /\ ap.drop_every_n_frames > 0 /\ ap.insert_every_n_frames = 0
    /\ C31_Countdown < op'.frames
    /\ C31_Countdown + 1 + ap.drop_every_n_frames >= op'.frames
    /\ Len(BufferedData(ap)) >= (C31_Countdown + 2) * FrameSize(ap)

\* the second of the two input frames the event consumes
C31_SecondFrame ==
    SubSeq(BufferedData(ap), (C31_Countdown + 1) * FrameSize(ap) + 1,
           (C31_Countdown + 2) * FrameSize(ap))

\* what is buffered after the two frames of the event
C31_AfterEvent == Drop(BufferedData(ap), (C31_Countdown + 2) * FrameSize(ap))

\* the part of C31 on input and countdown: the event consumes exactly two
\* input frames, the cursor advancing with them, and resets the drop countdown
\* to drop_every_n_frames (on return: less the frames written after the event)
C31_DropConsumes ==
    [][ C31_DropCallback
          => /\ op'.path = "slow"
             /\ BufferedData(ap')
                  = Drop(C31_AfterEvent,
                         C30_Real(C31_AfterEvent, op'.frames - C31_Countdown - 1))
             /\ (ap'.server_ts_cursor_us - ap.server_ts_cursor_us) * SampleRate(ap)
                  + ap'.server_ts_cursor_remainder - ap.server_ts_cursor_remainder
                  = ((Len(BufferedData(ap)) - Len(BufferedData(ap'))) \div FrameSize(ap))
                      * MICROSECONDS_PER_SECOND
             /\ ap'.frames_until_next_drop
                  = ap.drop_every_n_frames - (op'.frames - C31_Countdown - 1)
             /\ ap'.frames_dropped_since_log = ap.frames_dropped_since_log + 1 ]_vars

\* C31: at a drop event in the slow path, the callback consumes exactly two
\* input frames (the server cursor advances by two frames), writes as the
\* single output frame the second of those two frames (so exactly one input
\* frame is skipped), and resets the drop countdown to drop_every_n_frames.
\* Stated on the callback: its buffer is the segment before the event, the
\* second of the two frames, and the segment after them.
C31_DropEvent ==
    [][ C31_DropCallback
          => /\ op'.path = "slow"
             /\ op'.raw = C30_Segment(BufferedData(ap), C31_Countdown)
                            \o C31_SecondFrame
                            \o C30_Segment(C31_AfterEvent, op'.frames - C31_Countdown - 1)
             /\ BufferedData(ap')
                  = Drop(C31_AfterEvent,
                         C30_Real(C31_AfterEvent, op'.frames - C31_Countdown - 1))
             /\ ap'.frames_until_next_drop
                  = ap.drop_every_n_frames - (op'.frames - C31_Countdown - 1) ]_vars

\* what the code writes at the event: the frame before the two it consumes
C31_DropRepeatsPrevious ==
    [][ C31_DropCallback /\ C31_Countdown > 0
          => op'.raw = C30_Segment(BufferedData(ap), C31_Countdown)
                         \o SubSeq(BufferedData(ap), (C31_Countdown - 1) * FrameSize(ap) + 1,
                                   C31_Countdown * FrameSize(ap))
                         \o C30_Segment(C31_AfterEvent, op'.frames - C31_Countdown - 1) ]_vars

\* a slow-path callback has met a drop event with the two frames buffered
C31_Reached ==
    /\ op.name = "callback" /\ op.path = "slow"
    /\ ap.drop_every_n_frames > 0
    /\ ap.frames_dropped_since_log = 1
    /\ Len(op.emit) >= ap.drop_every_n_frames * FrameSize(ap)
    /\ BufferedData(ap) # <<>>

\* a callback that finds the player waiting for its start
C32_GateCallback ==
    /\ op'.name = "callback" /\ op'.status = "none"
    /\ ~IsNone(ap.format)
    /\ ap.playback_state = "WAITING_FOR_START"

\* the gate of this callback runs on the DAC clock
C32_DacGated == ~IsNone(GateDacStart) /\ op'.dac > 0

\* how far the DAC time is past the scheduled DAC start
C32_Late == op'.dac - Val(GateDacStart)

\* ceil(L x sample_rate / 10^6) capped by the whole frames buffered
C32_CatchUp ==
    Min(FramesForDelta(C32_Late, SampleRate(ap)), Len(BufferedData(ap)) \div FrameSize(ap))

\* what the callback does once the gate has discarded `discard` frames: it
\* enters PLAYING, plays what follows the discarded frames, and the cursor has
\* advanced by the frames discarded and played
C32_StartsAfter(discard) ==
    /\ ap'.playback_state = "PLAYING"
    /\ op'.raw = C30_Segment(Drop(BufferedData(ap), discard * FrameSize(ap)), op'.frames)
    /\ BufferedData(ap')
         = Drop(BufferedData(ap), (discard + op'.frames) * FrameSize(ap))
    /\ BufferedData(ap) # <<>>
         => (ap'.server_ts_cursor_us - C27_NextChunk.server_timestamp_us) * SampleRate(ap)
              + ap'.server_ts_cursor_remainder
              = ((Len(BufferedData(ap)) - Len(BufferedData(ap'))) \div FrameSize(ap))
                  * MICROSECONDS_PER_SECOND

\* a callback gated on the loop clock discards nothing: it plays from the head
\* of the buffer once the start has come and leaves the input alone before
C32_LoopGated ==
    ~C32_DacGated /\ ~IsNone(ap.scheduled_start_loop_time_us)
      => IF now >= Val(ap.scheduled_start_loop_time_us)
         THEN C32_StartsAfter(0)
         ELSE ap'.playback_state = "WAITING_FOR_START" /\ InputUntouched

\* C32: late start under DAC gating: when a callback in WAITING_FOR_START
\* finds DAC time past the scheduled DAC start by L us, it discards from the
\* queue head min(ceil(L x sample_rate / 10^6), frames buffered) frames,
\* advancing the server cursor by the same number, and enters PLAYING; but if
\* the first chunk was scheduled no more than 700 ms ahead of its submit
\* (early_start_suspect) and no re-anchor has occurred, it discards nothing
\* and just enters PLAYING. Under loop-time gating nothing is ever discarded.
C32_LateStart ==
    [][ C32_GateCallback
          => /\ C32_DacGated /\ C32_Late >= 0
                  => C32_StartsAfter(IF ap.early_start_suspect /\ IsNone(anchor_at)
                                     THEN 0 ELSE C32_CatchUp)
             /\ C32_LoopGated ]_vars

\* what the code does: the catch-up is suppressed for every early start,
\* before and after a re-anchor
C32_LateStartSuspect ==
    [][ C32_GateCallback
          => /\ C32_DacGated /\ C32_Late >= 0
                  => C32_StartsAfter(IF ap.early_start_suspect THEN 0 ELSE C32_CatchUp)
             /\ C32_LoopGated ]_vars

\* the claim for the streams that have not re-anchored
C32_LateStartFirstAnchor ==
    [][ C32_GateCallback /\ IsNone(anchor_at)
          => /\ C32_DacGated /\ C32_Late >= 0
                  => C32_StartsAfter(IF ap.early_start_suspect THEN 0 ELSE C32_CatchUp)
             /\ C32_LoopGated ]_vars

\* a late start on the DAC clock has discarded frames from the head of the
\* buffer and played the ones behind them
C32_Discarded ==
    /\ op.name = "callback" /\ op.dac > 0
    /\ ap.playback_state = "PLAYING"
    /\ ~ap.early_start_suspect
    /\ Len(emitted) = Len(op.emit) /\ Len(op.emit) > 0
    /\ emitted[1][1] > 1

\* a submit that passes the checks and finds the player waiting for its start
C33_WaitingSubmit ==
    /\ op'.name = "submit" /\ op'.valid /\ ~op'.cleared
    /\ ap.playback_state = "WAITING_FOR_START"

\* the start recomputed from the stored first timestamp
C33_Recomputed == ComputeClientTime(Val(ap.first_server_timestamp_us))

\* C33: for a submit after the first while the state is WAITING_FOR_START, the
\* start is recomputed from the stored first_server_timestamp_us (not from the
\* new chunk's timestamp): scheduled_start_loop_time_us is overwritten, and
\* the DAC start refreshed, if and only if the recomputed value differs from
\* the stored one by more than 5 000 us; first_server_timestamp_us and the
\* state are unchanged.
C33_StartRefresh ==
    [][ C33_WaitingSubmit /\ conv_ok
          => /\ ap'.first_server_timestamp_us = ap.first_server_timestamp_us
             /\ ap'.playback_state = "WAITING_FOR_START"
             /\ IF Abs(C33_Recomputed - Val(ap.scheduled_start_loop_time_us)) > 5000
                THEN /\ ap'.scheduled_start_loop_time_us = Some(C33_Recomputed)
                     /\ ap'.scheduled_start_dac_time_us
                          = DacStart(EstimateDacTimeForServerTimestamp(
                                         ap, Val(ap.first_server_timestamp_us)))
                ELSE /\ ap'.scheduled_start_loop_time_us = ap.scheduled_start_loop_time_us
                     /\ ap'.scheduled_start_dac_time_us = ap.scheduled_start_dac_time_us ]_vars

\* a later submit has moved the start of a waiting stream by 5 001 us and
\* taken the DAC start anew from the calibration ring
C33_Witness ==
    /\ op.name = "submit" /\ op.valid /\ ~op.cleared
    /\ ap.playback_state = "WAITING_FOR_START"
    /\ Len(ap.queue) >= 2
    /\ skew = 5001
    /\ op.ts # Val(ap.first_server_timestamp_us)
    /\ ap.scheduled_start_loop_time_us = Some(Val(ap.first_server_timestamp_us) + 5001)
    /\ ap.dac_loop_calibrations # <<>>
    /\ ~IsNone(ap.scheduled_start_dac_time_us)

\* a later submit has left the start of a waiting stream alone although the
\* conversion has moved by 5 000 us
C33_Kept ==
    /\ op.name = "submit" /\ op.valid /\ ~op.cleared
    /\ ap.playback_state = "WAITING_FOR_START"
    /\ Len(ap.queue) >= 2
    /\ skew = 5000
    /\ ap.scheduled_start_loop_time_us = ap.first_server_timestamp_us

\* C34: under every interleaving of a submit on the control thread with an
\* audio callback on the audio thread, the pair (insert_every_n_frames,
\* drop_every_n_frames) that the callback snapshots at entry never has both
\* components nonzero.
C34_Snapshot ==
    op.name = "callback" => ~(op.snap[1] # 0 /\ op.snap[2] # 0)

\* the fields themselves hold two nonzero intervals between the two
\* assignments of a plan
C34_FieldsBothSet ==
    /\ pc.ctl = "plan"
    /\ ap.insert_every_n_frames # 0 /\ ap.drop_every_n_frames # 0

\* a callback has taken insert_every_n_frames from one plan and
\* drop_every_n_frames from the next, a whole submit having run between its
\* two reads
C34_TornSnapshot ==
    /\ op.name = "callback"
    /\ op.snap[1] # 0 /\ op.snap[2] # 0
    /\ pc.ctl = "idle"
    /\ ap.insert_every_n_frames = 0

\* a step of the audio thread: a callback, or either half of one
C35_AudioStep == op'.name \in {"callback", "callback_entry"}

\* the fields the claim reserves to the control context
C35_ControlFieldsKept ==
    /\ ap'.playback_state = ap.playback_state
    /\ ap'.insert_every_n_frames = ap.insert_every_n_frames
    /\ ap'.drop_every_n_frames = ap.drop_every_n_frames
    /\ ap'.scheduled_start_loop_time_us = ap.scheduled_start_loop_time_us
    /\ ap'.scheduled_start_dac_time_us = ap.scheduled_start_dac_time_us
    /\ ap'.volume = ap.volume
    /\ ap'.muted = ap.muted

\* the fields outside the queue read side, the calibration ring and
\* clear_requested
C35_OtherFieldsKept ==
    /\ ap'.format = ap.format /\ ap'.stream = ap.stream /\ ap'.closed = ap.closed
    /\ ap'.stream_started = ap.stream_started
    /\ ap'.expected_next_timestamp = ap.expected_next_timestamp
    /\ ap'.first_server_timestamp_us = ap.first_server_timestamp_us
    /\ ap'.early_start_suspect = ap.early_start_suspect
    /\ ap'.has_reanchored = ap.has_reanchored
    /\ ap'.sync_error_filter = ap.sync_error_filter
    /\ ap'.sync_error_filtered_us = ap.sync_error_filtered_us
    /\ ap'.last_reanchor_loop_time_us = ap.last_reanchor_loop_time_us
    /\ ap'.last_sync_error_log_us = ap.last_sync_error_log_us

\* C35 as the specification words it: the audio callback never writes the
\* playback state, the correction intervals, the scheduled start, volume or
\* mute
C35_AudioWritesAsWorded ==
    [][ C35_AudioStep => C35_ControlFieldsKept /\ C35_OtherFieldsKept ]_vars

\* C35: the audio callback never writes the correction intervals, the loop
\* time of the scheduled start, volume or mute, nor the format, the stream
\* handle, the expected next timestamp, the first timestamp, the early-start
\* flag, the sync-error filter or the re-anchor and log stamps; of the fields
\* the control context writes it writes two: the playback state, only from
\* WAITING_FOR_START to PLAYING, and the DAC time of the scheduled start, only
\* from None to an estimate.
C35_AudioWrites ==
    [][ C35_AudioStep
          => /\ C35_OtherFieldsKept
             /\ ap'.insert_every_n_frames = ap.insert_every_n_frames
             /\ ap'.drop_every_n_frames = ap.drop_every_n_frames
             /\ ap'.scheduled_start_loop_time_us = ap.scheduled_start_loop_time_us
             /\ ap'.volume = ap.volume
             /\ ap'.muted = ap.muted
             /\ \/ ap'.playback_state = ap.playback_state
                \/ ap.playback_state = "WAITING_FOR_START" /\ ap'.playback_state = "PLAYING"
             /\ \/ ap'.scheduled_start_dac_time_us = ap.scheduled_start_dac_time_us
                \/ IsNone(ap.scheduled_start_dac_time_us)
                     /\ ~IsNone(ap'.scheduled_start_dac_time_us) ]_vars

\* the first callback since the last clear has taken the DAC start from its
\* own calibration pair and opened the gate
C35_Witness ==
    /\ op.name = "callback" /\ op.path = "fast"
    /\ Len(ap.dac_loop_calibrations) = 1
    /\ ~IsNone(ap.scheduled_start_dac_time_us)
    /\ ap.playback_state = "PLAYING"
    /\ emitted = op.emit /\ op.emit # <<>>

\* C36: whenever the playback state is INITIALIZING the chunk queue is empty
\* and no chunk is loaded; consequently an audio callback emits queued audio
\* only after a start has been scheduled and the gate has passed (state
\* PLAYING), never while the state is INITIALIZING.
C36_InitializingEmpty ==
    /\ ap.playback_state = "INITIALIZING"
         => ap.queue = <<>> /\ IsNone(ap.current_chunk)
    /\ op.name = "callback" /\ op.emit # <<>>
         => ap.playback_state = "PLAYING" /\ ~IsNone(ap.scheduled_start_loop_time_us)

\* the consequence on its own: no callback emits queued audio from the state
\* INITIALIZING
C36_NoAudioInitializing ==
    [][ op'.name = "callback" /\ ap.playback_state = "INITIALIZING" => op'.emit = <<>> ]_vars

\* the claim for the streams that have not re-anchored
C36_FirstAnchor == IsNone(anchor_at) => C36_InitializingEmpty

\* a callback has played queued audio with no start scheduled
C36_PlayedUngated ==
    /\ op.name = "callback" /\ op.emit # <<>>
    /\ ap.playback_state = "INITIALIZING"
    /\ IsNone(ap.scheduled_start_loop_time_us)

\* a step on which clear returns: clear called by the client, or the clear
\* that submit runs for a deferred request
C37_ClearDone == op'.name = "clear" \/ (op'.name = "submit" /\ op'.cleared)

\* C37: under every interleaving of clear() on the control thread with audio
\* callbacks, clear_requested is false when clear() returns, so one underflow
\* causes exactly one clear and a chunk accepted after that clear is never
\* discarded because of an underflow that happened before the clear
\* completed.
C37_ClearAcknowledges ==
    [][ C37_ClearDone => ~ap'.clear_requested ]_vars

\* a submit has run the clear an underflow asked for, queued its chunk, and
\* returned with the request of an underflow reported during that clear
\* still pending: the next submit discards the chunk
C37_StaleRequest ==
    /\ op.name = "submit" /\ op.cleared
    /\ pc.ctl = "idle"
    /\ ap.clear_requested
    /\ ap.queue # <<>>

\* the last operation was a slow-path callback that wrote real frames only
\* and left the countdown of the active plan at zero: the N-th real frame
\* since the last event (or since the plan began) was the last of its buffer
C38_AtBoundary ==
    /\ op.name = "callback" /\ op.path = "slow"
    /\ Len(op.emit) = Len(op.raw)
    /\ ap.playback_state = "PLAYING"
    /\ op.snap = <<ap.insert_every_n_frames, ap.drop_every_n_frames>>
    /\ \/ op.snap[1] > 0 /\ op.snap[2] = 0 /\ ap.frames_until_next_insert = 0
       \/ op.snap[2] > 0 /\ op.snap[1] = 0 /\ ap.frames_until_next_drop = 0

\* the callback that follows, with audio for its whole buffer and one frame
\* more
C38_NextCallback ==
    /\ op'.name = "callback" /\ op'.status = "none"
    /\ Len(BufferedData(ap)) >= (op'.frames + 1) * FrameSize(ap)

\* C38: while an insert plan (or a drop plan) with interval N stays active
\* over consecutive callbacks and the queue never underruns, exactly one
\* correction event occurs after every N real frames emitted, including when
\* the N-th frame is the last frame of a callback buffer: no correction event
\* is lost or delayed by a further N frames at a callback boundary. Stated at
\* the boundary: the callback that follows begins with the event that is due.
C38_EventAtBoundary ==
    [][ C38_AtBoundary /\ C38_NextCallback
          => IF ap.insert_every_n_frames > 0
             THEN /\ ap'.frames_inserted_since_log > ap.frames_inserted_since_log
                  /\ SubSeq(op'.raw, 1, FrameSize(ap)) = ap.last_output_frame
             ELSE /\ ap'.frames_dropped_since_log > ap.frames_dropped_since_log
                  /\ Len(BufferedData(ap)) - Len(BufferedData(ap'))
                       > op'.frames * FrameSize(ap) ]_vars

\* two consecutive callbacks of one block each have played two intervals of
\* real frames under an insert plan without one frame inserted
C38_EventLost ==
    /\ C38_AtBoundary
    /\ ap.insert_every_n_frames = op.frames
    /\ ap.frames_inserted_since_log = 0
    /\ Len(emitted) >= 4 * op.frames * FrameSize(ap)
    /\ BufferedData(ap) # <<>>

\* the ring after an append of the pair this callback measured: the pair
\* goes to the end, and the oldest pairs leave while more than 100 are held
C39_Appended ==
    SubSeq(ap.dac_loop_calibrations \o << <<op'.dac, now>> >>,
           Len(ap.dac_loop_calibrations) + 2
               - Min(Len(ap.dac_loop_calibrations) + 1, 100),
           Len(ap.dac_loop_calibrations) + 1)

C39_UnderflowSkips ==
    /\ op.name = "callback" /\ op.path = "underflow"
    /\ Len(ap.dac_loop_calibrations) = 1

\* C40: while the SendspinBridge is paused, its AudioPlayer, if one exists,
\* stays muted, whatever sequence of set_volume, duck, unduck, server
\* volume/mute commands or player re-creations on format change occurs in
\* between.
C40_PausedMuted == br.paused /\ br.player => ap.muted

\* pause() taking effect mutes the player
C40_PauseMutes ==
    [][ op'.name = "pause" /\ br.stream_active /\ ~br.paused /\ br.player
          => br'.paused /\ ap'.muted /\ ap'.volume = 0 ]_vars

\* unduck() during a pause leaves the player as it is
C40_UnduckKeepsMute ==
    [][ op'.name = "unduck" /\ br.paused => ap' = ap ]_vars

\* every operation but these keeps the player of a paused bridge muted
C40_OnlyVolumeUpdatesUnmute ==
    [][ br.paused /\ br.player /\ ap.muted /\ br'.paused /\ br'.player /\ ~ap'.muted
          => op'.name \in {"bridge_set_volume", "duck", "server_volume",
                           "server_mute", "audio_chunk"} ]_vars

\* duck() during a pause has unmuted the player
C40_UnmutedByDuck ==
    /\ op.name = "duck"
    /\ br.paused /\ br.player /\ ~ap.muted

\* a chunk of another format during a pause has put an unmuted player in place
C40_UnmutedByRecreation ==
    /\ op.name = "audio_chunk"
    /\ br.paused /\ br.player /\ ~ap.muted

=============================================================================
